---------------------------- MODULE Spec2Model ----------------------------
(***************************************************************************)
(* websiteSimilar: the batch pipeline of Run (fetch, render, cluster,      *)
(* rule classification, report), the content clustering engine and the     *)
(* eight-rule classifier.                                                   *)
(*                                                                         *)
(* Strings are sequences of one-character strings, so that the per-rune    *)
(* functions (sanitizeForClusterID, TrimSuffix, fmt verbs) are computed    *)
(* and not assumed.  A 64-bit hash is the set of its set bit positions     *)
(* (0..63); MD5 digests are idealised as collision free.                   *)
(***************************************************************************)
EXTENDS Integers, Sequences, FiniteSets, TLC

VARIABLES
    site,               \* id -> what the network and the browser answer for that URL
    opts,               \* Options: BatchSize, Parallel, RenderParallel
    pc,                 \* position of the goroutine that executes Run
    ctxDone,            \* the cancellation token has fired
    batchIdx,           \* Run: batchIdx
    results,            \* FetchBatch: results, which Run keeps as batchFetchResults
    fetchI,             \* FetchBatch: loop index i
    fetchGo,            \* FetchBatch: slot -> state of the goroutine started for it
    eligibleHTML,       \* Run: batchEligibleHTML
    renderI,            \* Run: index of the render loop
    renderGo,           \* Run: index -> state of the render goroutine
    fetchResults,       \* Run: fetchResults
    pagesWithFeatures,  \* Run: pagesWithFeatures
    contentClusters,    \* Run: contentClusters (cluster id -> ClusterGroup)
    assignments,        \* BuildRuleAssignments: assignments
    report,             \* the report Run returns
    runErr              \* the error Run returns

vars == << site, opts, pc, ctxDone, batchIdx, results, fetchI, fetchGo,
           eligibleHTML, renderI, renderGo, fetchResults, pagesWithFeatures,
           contentClusters, assignments, report, runErr >>

-----------------------------------------------------------------------------
(* Strings and numbers *)

Min2(a, b) == IF a < b THEN a ELSE b
Max2(a, b) == IF a > b THEN a ELSE b

RECURSIVE SeqOfSet(_)
SeqOfSet(S) ==
    IF S = {} THEN << >>
    ELSE LET x == CHOOSE y \in S : TRUE IN << x >> \o SeqOfSet(S \ {x})

Range(s) == { s[i] : i \in 1..Len(s) }

\* a set of integers as the sequence of its elements in increasing order
RECURSIVE Ascending(_)
Ascending(S) ==
    IF S = {} THEN << >>
    ELSE LET x == CHOOSE y \in S : \A z \in S : y <= z IN << x >> \o Ascending(S \ {x})

HasSuffix(s, suf) ==
    /\ Len(s) >= Len(suf)
    /\ SubSeq(s, Len(s) - Len(suf) + 1, Len(s)) = suf

TrimSuffix(s, suf) ==
    IF HasSuffix(s, suf) THEN SubSeq(s, 1, Len(s) - Len(suf)) ELSE s

Lower == [ c \in {"A", "B"} |-> IF c = "A" THEN "a" ELSE "b" ]
ToLower(s) == [ i \in 1..Len(s) |-> IF s[i] \in DOMAIN Lower THEN Lower[s[i]] ELSE s[i] ]

HexDigits == << "0", "1", "2", "3", "4", "5", "6", "7",
                "8", "9", "a", "b", "c", "d", "e", "f" >>

\* fmt verb %x of a non-negative integer
RECURSIVE Hex(_)
Hex(n) == IF n < 16 THEN << HexDigits[n + 1] >>
          ELSE Hex(n \div 16) \o << HexDigits[(n % 16) + 1] >>

\* fmt verb %05d of a non-negative integer
RECURSIVE Dec(_)
Dec(n) == IF n < 10 THEN << HexDigits[n + 1] >>
          ELSE Dec(n \div 10) \o << HexDigits[(n % 10) + 1] >>
RECURSIVE PadZero(_, _)
PadZero(s, w) == IF Len(s) >= w THEN s ELSE PadZero(<< "0" >> \o s, w)
Dec5(n) == PadZero(Dec(n), 5)

-----------------------------------------------------------------------------
(* URLs.  A URL is the record url.Parse makes of it; the empty string is   *)
(* NoURL.                                                                   *)

NoURL == [scheme |-> << >>, host |-> << >>, port |-> << >>, path |-> << >>]

Http  == << "h", "t", "t", "p" >>
Https == << "h", "t", "t", "p", "s" >>

\* the text of a URL (the key of finalURLMap, the input of md5 in rule R1)
URLString(u) ==
    IF u = NoURL THEN << >>
    ELSE u.scheme \o << ":", "/", "/" >> \o u.host
         \o (IF u.port = << >> THEN << >> ELSE << ":" >> \o u.port) \o u.path

\* url.URL.Host: host[:port]
HostPort(u) == u.host \o (IF u.port = << >> THEN << >> ELSE << ":" >> \o u.port)

OriginKey(u) ==
    LET scheme == ToLower(u.scheme)
        host   == ToLower(u.host)
        port   == IF u.port # << >> THEN u.port
                  ELSE IF scheme = Https THEN << "4", "4", "3" >> ELSE << "8", "0" >>
    IN  IF scheme = << >> \/ host = << >> THEN << >>
        ELSE scheme \o << ":", "/", "/" >> \o host \o << ":" >> \o port

AlphaNum ==
    { "a", "b", "c", "d", "e", "f", "g", "h", "i", "j", "k", "l", "m",
      "n", "o", "p", "q", "r", "s", "t", "u", "v", "w", "x", "y", "z",
      "A", "B", "C", "D", "E", "F", "G", "H", "I", "J", "K", "L", "M",
      "N", "O", "P", "Q", "R", "S", "T", "U", "V", "W", "X", "Y", "Z",
      "0", "1", "2", "3", "4", "5", "6", "7", "8", "9" }

RECURSIVE sanitizeForClusterID(_)
sanitizeForClusterID(s) ==
    IF s = << >> THEN << >>
    ELSE LET r == Head(s)
             out == IF r \in AlphaNum \/ r = "-" \/ r = "_" THEN << r >>
                    ELSE IF r = ":" \/ r = "/" THEN << "_" >>
                    ELSE << >>
         IN  out \o sanitizeForClusterID(Tail(s))

getPath(u) == u.path

IndexHtml == << "/", "i", "n", "d", "e", "x", ".", "h", "t", "m", "l" >>
IndexHtm  == << "/", "i", "n", "d", "e", "x", ".", "h", "t", "m" >>
IndexPhp  == << "/", "i", "n", "d", "e", "x", ".", "p", "h", "p" >>
IndexBare == << "/", "i", "n", "d", "e", "x" >>

normalizePath(u) ==
    LET p1 == TrimSuffix(u.path, IndexHtml)
        p2 == TrimSuffix(p1, IndexHtm)
        p3 == TrimSuffix(p2, IndexPhp)
        p4 == TrimSuffix(p3, IndexBare)
    IN  IF p4 = << >> THEN << "/" >>
        ELSE IF p4 # << "/" >> /\ ~HasSuffix(p4, << "/" >>) THEN p4 \o << "/" >>
        ELSE p4

-----------------------------------------------------------------------------
(* Response bodies and fetch results.  A body is described by what the     *)
(* code computes from it: its byte length, the keyword classes its         *)
(* lower-cased text contains, the length and MD5 of its tag-stripped text  *)
(* (rule fingerprint), and what ExtractNonHTMLFeatures derives from it.    *)

KwError == "error"
KwLogin == "login"
KwWAF   == "waf"
KwMaint == "maintenance"

NilBytes == [len |-> 0, kw |-> {}, fpLen |-> 0, fpHash |-> 0,
             thash |-> {}, tlen |-> 0, decodes |-> FALSE,
             phash |-> {}, w |-> 0, h |-> 0, md5 |-> {}]

CtHTML   == "text/html"
CtJSON   == "application/json"
CtPNG    == "image/png"
CtPDF    == "application/pdf"

ContentCategoryHTML   == "html"
ContentCategoryText   == "text"
ContentCategoryImage  == "image"
ContentCategoryBinary == "binary"
ContentCategoryEmpty  == "empty"

categorizeContent(ct) ==
    IF ct = CtHTML THEN ContentCategoryHTML
    ELSE IF ct = CtJSON THEN ContentCategoryText
    ELSE IF ct = CtPNG THEN ContentCategoryImage
    ELSE IF ct # "" THEN ContentCategoryBinary
    ELSE ContentCategoryEmpty

\* the zero value of FetchResult
ZeroFetchResult ==
    [ID |-> 0, NormalizedURL |-> NoURL, FinalURL |-> NoURL, StatusCode |-> 0,
     ContentType |-> "", ContentCategory |-> "", Error |-> "",
     RawHTML |-> NilBytes, RawBody |-> NilBytes]

MinTextLength == 200
MinHTMLSize   == 1024
MinTextSize   == 100
MinImageSize  == 1024
MinBinarySize == 100

-----------------------------------------------------------------------------
(* Rule classifier (BuildRuleAssignments) *)

FingerprintHTML(html) ==
    IF html.len = 0 THEN [Length |-> 0, Hash |-> 0]
    ELSE [Length |-> html.fpLen, Hash |-> html.fpHash]

\* BuildRuleAssignments, the body of its loop over fetchResults
perURLInfo(fr) ==
    LET o1     == OriginKey(fr.FinalURL)
        origin == IF o1 = << >> THEN OriginKey(fr.NormalizedURL) ELSE o1
        isHTML == fr.ContentType = CtHTML
    IN  [FR |-> fr, Origin |-> origin, IsHTML |-> isHTML,
         HtmlFP |-> IF isHTML /\ fr.RawHTML.len > 0
                    THEN FingerprintHTML(fr.RawHTML)
                    ELSE [Length |-> 0, Hash |-> 0]]

\* the infos BuildRuleAssignments keeps, in input order (empty origin: skipped)
RuleInfos(frs) ==
    SelectSeq([i \in 1..Len(frs) |-> perURLInfo(frs[i])], LAMBDA x : x.Origin # << >>)

OriginMap(frs) ==
    LET infos == RuleInfos(frs)
    IN  [o \in { x.Origin : x \in Range(infos) } |->
            SelectSeq(infos, LAMBDA x : x.Origin = o)]

FinalURLMap(frs) ==
    LET infos == RuleInfos(frs)
    IN  [u \in { x.FR.FinalURL : x \in Range(infos) } |->
            SelectSeq(infos, LAMBDA x : x.FR.FinalURL = u)]

IDsOf(group) == { group[i].FR.ID : i \in 1..Len(group) }

\* sort.Slice on a slice of fewer than 12 elements: insertion sort, every
\* element moving left past the elements it is less than
InsertBy(sorted, x, less(_, _)) ==
    LET j == CHOOSE k \in 0..Len(sorted) :
                 /\ \A q \in (k + 1)..Len(sorted) : less(x, sorted[q])
                 /\ k = 0 \/ ~less(x, sorted[k])
    IN  SubSeq(sorted, 1, j) \o << x >> \o SubSeq(sorted, j + 1, Len(sorted))

SortSlice(s, less(_, _)) ==
    LET f[i \in 0..Len(s)] == IF i = 0 THEN << >> ELSE InsertBy(f[i - 1], s[i], less)
    IN  f[Len(s)]

\* the order of selectCanonicalByPath without its last key, the id
PathLess_NoIDTieBreak(a, b) ==
    IF Len(getPath(a.FR.FinalURL)) # Len(getPath(b.FR.FinalURL))
    THEN Len(getPath(a.FR.FinalURL)) < Len(getPath(b.FR.FinalURL))
    ELSE FALSE

\* the order of selectCanonicalByPath: path length, then id
PathLess(a, b) ==
    IF Len(getPath(a.FR.FinalURL)) # Len(getPath(b.FR.FinalURL))
    THEN Len(getPath(a.FR.FinalURL)) < Len(getPath(b.FR.FinalURL))
    ELSE a.FR.ID < b.FR.ID

\* sort.Slice by (path length, id), then element 0
selectCanonicalByPath(urls) ==
    IF Len(urls) = 0 THEN 0 ELSE SortSlice(urls, PathLess)[1].FR.ID

Is2xx(code) == code >= 200 /\ code < 300

\* the order of selectCanonicalForRedirect: 2xx first, path length, id
RedirectLess(a, b) ==
    IF Is2xx(a.FR.StatusCode) # Is2xx(b.FR.StatusCode)
    THEN Is2xx(a.FR.StatusCode)
    ELSE IF Len(getPath(a.FR.FinalURL)) # Len(getPath(b.FR.FinalURL))
    THEN Len(getPath(a.FR.FinalURL)) < Len(getPath(b.FR.FinalURL))
    ELSE a.FR.ID < b.FR.ID

selectCanonicalForRedirect(urls) ==
    IF Len(urls) = 0 THEN 0 ELSE SortSlice(urls, RedirectLess)[1].FR.ID

isLengthSimilar(group) ==
    LET lengths == { group[i].HtmlFP.Length : i \in { j \in 1..Len(group) : group[j].HtmlFP.Length > 0 } }
        count   == Cardinality({ j \in 1..Len(group) : group[j].HtmlFP.Length > 0 })
        min     == CHOOSE x \in lengths : \A y \in lengths : x <= y
        max     == CHOOSE x \in lengths : \A y \in lengths : x >= y
    IN  IF Len(group) < 2 THEN FALSE
        ELSE IF count = 0 THEN TRUE
        ELSE IF count < 2 THEN FALSE
        ELSE 10 * min >= 8 * max

containsErrorKeywords(html)       == KwError \in html.kw
containsLoginKeywords(html)       == KwLogin \in html.kw
containsWAFKeywords(html)         == KwWAF \in html.kw
containsMaintenanceKeywords(html) == KwMaint \in html.kw

\* the assignment loop without its "exists" test: every id of the group is written
AssignOverwriting(assign, group, clusterID, canonicalID, priority) ==
    [id \in DOMAIN assign \cup IDsOf(group) |->
        IF id \in IDsOf(group)
        THEN [ClusterID |-> clusterID, IsCanonical |-> id = canonicalID,
              Priority |-> priority]
        ELSE assign[id]]

\* the assignment loop of rules E1..T1: ids that have an assignment keep it
AssignIfAbsent(assign, group, clusterID, canonicalID, priority) ==
    [id \in DOMAIN assign \cup IDsOf(group) |->
        IF id \in DOMAIN assign THEN assign[id]
        ELSE [ClusterID |-> clusterID, IsCanonical |-> id = canonicalID,
              Priority |-> priority]]

\* the assignment loop of rules R1 and U1 (the group was filtered before)
AssignAll(assign, group, clusterID, canonicalID, priority) ==
    [id \in DOMAIN assign \cup IDsOf(group) |->
        IF id \in IDsOf(group)
        THEN [ClusterID |-> clusterID, IsCanonical |-> id = canonicalID,
              Priority |-> priority]
        ELSE assign[id]]

Str_err5xx    == << "e", "r", "r", "5", "x", "x", "-" >>
Str_errtpl    == << "e", "r", "r", "t", "p", "l", "-" >>
Str_loginwall == << "l", "o", "g", "i", "n", "w", "a", "l", "l", "-" >>
Str_waf       == << "w", "a", "f", "-" >>
Str_maint     == << "m", "a", "i", "n", "t", "-" >>
Str_thin      == << "t", "h", "i", "n", "-" >>
Str_redir     == << "r", "e", "d", "i", "r", "-" >>
Str_urlcanon  == << "u", "r", "l", "c", "a", "n", "o", "n", "-" >>

\* fpHash & 0xFFFF
Low16(hash) == hash % 65536

\* "<prefix><origin*>-<hash&0xFFFF as %x>"
FpClusterID(prefix, origin, fpHash) ==
    prefix \o sanitizeForClusterID(origin) \o << "-" >> \o Hex(Low16(fpHash))

\* the loop over fpGroups that rules E3, L1, W1, M1 and T1 share: a group of
\* two or more length-similar pages is assigned, ids that are assigned keep theirs
FpGroupsLoop(assign, pages, keyOf(_), keys, idOf(_), priority) ==
    LET ks == SeqOfSet(keys)
        step(a, fpHash) ==
            LET group == SelectSeq(pages, LAMBDA x : keyOf(x) = fpHash)
            IN  IF Len(group) < 2 \/ ~isLengthSimilar(group) THEN a
                ELSE AssignIfAbsent(a, group, idOf(fpHash),
                                    selectCanonicalByPath(group), priority)
        f[i \in 0..Len(ks)] == IF i = 0 THEN assign ELSE step(f[i - 1], ks[i])
    IN  f[Len(ks)]

\* one iteration of the loop over originMap of rule E1
RuleE1Origin(assign, origin, urls) ==
    LET err5xx == SelectSeq(urls, LAMBDA x : x.FR.StatusCode >= 500 /\ x.FR.StatusCode < 600)
    IN  IF Len(err5xx) < 2 THEN assign
        ELSE AssignIfAbsent(assign, err5xx, Str_err5xx \o sanitizeForClusterID(origin),
                            selectCanonicalByPath(err5xx), 1)

RuleE3Origin(assign, origin, urls) ==
    LET isErr(x) == \/ x.FR.StatusCode \in {404, 401, 403}
                    \/ /\ x.FR.StatusCode = 200 /\ x.IsHTML /\ x.FR.RawHTML.len > 0
                       /\ containsErrorKeywords(x.FR.RawHTML)
        errorPages == SelectSeq(urls, isErr)
        keyOf(x) == IF x.IsHTML THEN x.HtmlFP.Hash ELSE 0
        idOf(k)  == FpClusterID(Str_errtpl, origin, k)
    IN  IF Len(errorPages) < 2 THEN assign
        ELSE FpGroupsLoop(assign, errorPages, keyOf,
                          { keyOf(x) : x \in Range(errorPages) }, idOf, 3)

\* rules L1, W1 and M1 differ in the keyword list, the prefix and the priority
KeywordRuleOrigin(assign, origin, urls, contains(_), prefix, priority) ==
    LET kwPages == SelectSeq(urls, LAMBDA x : x.IsHTML /\ x.FR.RawHTML.len > 0
                                              /\ contains(x.FR.RawHTML))
        keyOf(x) == x.HtmlFP.Hash
        idOf(k)  == FpClusterID(prefix, origin, k)
    IN  IF Len(kwPages) < 2 THEN assign
        ELSE FpGroupsLoop(assign, kwPages, keyOf,
                          { keyOf(x) : x \in Range(kwPages) }, idOf, priority)

RuleL1Origin(assign, origin, urls) ==
    KeywordRuleOrigin(assign, origin, urls, containsLoginKeywords, Str_loginwall, 4)
RuleW1Origin(assign, origin, urls) ==
    KeywordRuleOrigin(assign, origin, urls, containsWAFKeywords, Str_waf, 5)
RuleM1Origin(assign, origin, urls) ==
    KeywordRuleOrigin(assign, origin, urls, containsMaintenanceKeywords, Str_maint, 6)

RuleT1Origin(assign, origin, urls) ==
    LET isThin(x) ==
            /\ Is2xx(x.FR.StatusCode) \/ x.FR.StatusCode = 401 \/ x.FR.StatusCode = 403
            /\ x.IsHTML
            /\ \/ x.FR.RawHTML.len < 1024
               \/ x.HtmlFP.Length > 0 /\ x.HtmlFP.Length < MinTextLength
        thinPages == SelectSeq(urls, isThin)
        keyOf(x) == x.HtmlFP.Hash
        idOf(k)  == FpClusterID(Str_thin, origin, k)
    IN  IF Len(thinPages) < 2 THEN assign
        ELSE FpGroupsLoop(assign, thinPages, keyOf,
                          { keyOf(x) : x \in Range(thinPages) }, idOf, 7)

\* one iteration of the loop over finalURLMap of rule R1; md5 is taken as
\* collision free, the digest of a URL being written as the URL's own text
RuleR1Group(assign, finalURL, urls) ==
    LET unassigned == SelectSeq(urls, LAMBDA x : x.FR.ID \notin DOMAIN assign)
    IN  IF Len(urls) < 2 \/ Len(unassigned) < 2 THEN assign
        ELSE AssignAll(assign, unassigned,
                       Str_redir \o URLString(finalURL),
                       selectCanonicalForRedirect(unassigned), 8)

U1Path(x) ==
    LET p == normalizePath(x.FR.FinalURL)
    IN  IF p = << >> THEN normalizePath(x.FR.NormalizedURL) ELSE p

PathGroupsLoop(assign, origin, urls, paths) ==
    LET ps == SeqOfSet(paths)
        step(a, path) ==
            LET group == SelectSeq(urls, LAMBDA x : U1Path(x) = path)
                unassigned == SelectSeq(group, LAMBDA x : x.FR.ID \notin DOMAIN a)
            IN  IF Len(group) < 2 \/ Len(unassigned) < 2 THEN a
                ELSE AssignAll(a, unassigned,
                               Str_urlcanon \o sanitizeForClusterID(origin)
                                  \o << "-" >> \o sanitizeForClusterID(path),
                               selectCanonicalByPath(unassigned), 9)
        f[i \in 0..Len(ps)] == IF i = 0 THEN assign ELSE step(f[i - 1], ps[i])
    IN  f[Len(ps)]

RuleU1Origin(assign, origin, urls) ==
    PathGroupsLoop(assign, origin, urls, { U1Path(x) : x \in Range(urls) })

\* "for key, urls := range m": the body applied to every entry of the map,
\* the keys met in the order ks
RangeMap(assign, m, ks, body(_, _, _)) ==
    LET f[i \in 0..Len(ks)] == IF i = 0 THEN assign ELSE body(f[i - 1], ks[i], m[ks[i]])
    IN  f[Len(ks)]

applyRuleE1(originMap, assign, order) == RangeMap(assign, originMap, order, RuleE1Origin)
applyRuleE3(originMap, assign, order) == RangeMap(assign, originMap, order, RuleE3Origin)
applyRuleL1(originMap, assign, order) == RangeMap(assign, originMap, order, RuleL1Origin)
applyRuleW1(originMap, assign, order) == RangeMap(assign, originMap, order, RuleW1Origin)
applyRuleM1(originMap, assign, order) == RangeMap(assign, originMap, order, RuleM1Origin)
applyRuleT1(originMap, assign, order) == RangeMap(assign, originMap, order, RuleT1Origin)
applyRuleR1(finalURLMap, assign, order) == RangeMap(assign, finalURLMap, order, RuleR1Group)
applyRuleU1(originMap, assign, order) == RangeMap(assign, originMap, order, RuleU1Origin)

NoAssignments == [id \in {} |-> [ClusterID |-> << >>, IsCanonical |-> FALSE, Priority |-> 0]]

BuildRuleAssignments(frs) ==
    LET om == OriginMap(frs)
        fm == FinalURLMap(frs)
        oo == SeqOfSet(DOMAIN om)
        a1 == applyRuleE1(om, NoAssignments, oo)
        a3 == applyRuleE3(om, a1, oo)
        a4 == applyRuleL1(om, a3, oo)
        a5 == applyRuleW1(om, a4, oo)
        a6 == applyRuleM1(om, a5, oo)
        a7 == applyRuleT1(om, a6, oo)
        a8 == applyRuleR1(fm, a7, SeqOfSet(DOMAIN fm))
    IN  applyRuleU1(om, a8, oo)

-----------------------------------------------------------------------------
(* Similarity engine.  float64 comparisons are made on exact integers:     *)
(* a cosine is kept as dot product and squared norms.                      *)

\* a nil *PageFeatures
NilFeatures == [nil |-> TRUE]

ZeroFeatures ==
    [Category |-> "", TextSimHash |-> {}, TextLength |-> 0,
     DOMNodeCount |-> 0, TextNodeCount |-> 0,
     TagCount |-> << >>, PathCount |-> << >>,
     ScreenshotW |-> 0, ScreenshotH |-> 0, PHash |-> {},
     TTFB |-> 0, DOMContentLoaded |-> 0, LoadEvent |-> 0]

HammingDistance64(a, b) == Cardinality((a \ b) \cup (b \ a))
hammingDistance64(a, b) == HammingDistance64(a, b)

\* m[k] of a Go map: the zero value when the key is missing
MapGet(m, k) == IF k \in DOMAIN m THEN m[k] ELSE 0

RECURSIVE SumOver(_, _)
SumOver(f, S) ==
    IF S = {} THEN 0
    ELSE LET x == CHOOSE y \in S : TRUE IN f[x] + SumOver(f, S \ {x})

QuickSimHashMaxDist == 8

\* simContent that takes SimHashes one bit apart for equal
simContentNum_OneBitFree(a, b) ==
    LET d == hammingDistance64(a.TextSimHash, b.TextSimHash)
    IN  IF a.TextLength = 0 \/ b.TextLength = 0 THEN 0
        ELSE IF 10 * Min2(a.TextLength, b.TextLength) < 3 * Max2(a.TextLength, b.TextLength) THEN 0
        ELSE IF d >= 16 THEN 0
        ELSE IF d <= 1 THEN 16
        ELSE 16 - d

\* simContent as the fraction num/16
simContentNum(a, b) ==
    LET d == hammingDistance64(a.TextSimHash, b.TextSimHash)
    IN  IF a.TextLength = 0 \/ b.TextLength = 0 THEN 0
        ELSE IF 10 * Min2(a.TextLength, b.TextLength) < 3 * Max2(a.TextLength, b.TextLength) THEN 0
        ELSE IF d >= 16 THEN 0
        ELSE 16 - d

KeyTags == << "div", "a", "img", "input", "script" >>

DOMVector(a) ==
    << a.DOMNodeCount, a.TextNodeCount >> \o [i \in 1..Len(KeyTags) |-> MapGet(a.TagCount, KeyTags[i])]

\* cosineSimilarity: the value is dot / sqrt(normA * normB), 0 when a norm is 0
cosineSimilarity(vecA, vecB) ==
    LET idx == 1..Len(vecA)
        dot == SumOver([i \in idx |-> vecA[i] * vecB[i]], idx)
        nA  == SumOver([i \in idx |-> vecA[i] * vecA[i]], idx)
        nB  == SumOver([i \in idx |-> vecB[i] * vecB[i]], idx)
    IN  IF Len(vecA) # Len(vecB) \/ nA = 0 \/ nB = 0
        THEN [dot |-> 0, normA |-> 1, normB |-> 1]
        ELSE [dot |-> dot, normA |-> nA, normB |-> nB]

simDOMStats(a, b) == cosineSimilarity(DOMVector(a), DOMVector(b))

\* simPath as the fraction inter/uni (0/1 when a map is empty)
simPath(a, b) ==
    LET seen  == DOMAIN a.PathCount \cup DOMAIN b.PathCount
        inter == SumOver([k \in seen |-> Min2(MapGet(a.PathCount, k), MapGet(b.PathCount, k))], seen)
        uni   == SumOver([k \in seen |-> Max2(MapGet(a.PathCount, k), MapGet(b.PathCount, k))], seen)
    IN  IF DOMAIN a.PathCount = {} \/ DOMAIN b.PathCount = {} \/ uni = 0
        THEN [inter |-> 0, uni |-> 1]
        ELSE [inter |-> inter, uni |-> uni]

\* 0.5*simDOMStats + 0.5*simPath >= 0.85, i.e. dot/sqrt(nA*nB) + inter/uni >= 1.7
StructureAtLeast085(a, b) ==
    LET c == simDOMStats(a, b)
        p == simPath(a, b)
        lhs == 10 * c.dot * p.uni
        rhs == 17 * p.uni - 10 * p.inter
    IN  c.dot >= 0 /\ lhs * lhs >= c.normA * c.normB * rhs * rhs

\* simVisual as the fraction num/20
simVisualNum(a, b) ==
    LET d == hammingDistance64(a.PHash, b.PHash)
    IN  IF a.PHash = {} \/ b.PHash = {} THEN 0
        ELSE IF d >= 20 THEN 0
        ELSE 20 - d

\* the scores of the report.  A float64 score is kept exact: simContent and
\* simVisual as fractions, a cosine as its dot product and squared norms,
\* simStructure as its two halves and totalSim as its four weighted terms
\* (0.4 content + 0.25 structure + 0.25 visual + 0.10 behavior).
simContent(a, b) == [num |-> simContentNum(a, b), den |-> 16]

simVisual(a, b) == [num |-> simVisualNum(a, b), den |-> 20]

simStructure(a, b) == [dom |-> simDOMStats(a, b), path |-> simPath(a, b)]

simBehavior(a, b) ==
    cosineSimilarity(<< a.TTFB, a.DOMContentLoaded, a.LoadEvent >>,
                     << b.TTFB, b.DOMContentLoaded, b.LoadEvent >>)

totalSim(contentSim, structSim, visualSim, behaviorSim) ==
    [content |-> contentSim, structure |-> structSim,
     visual |-> visualSim, behavior |-> behaviorSim]

CalculateSimilarities(a, b) ==
    [ContentSim |-> simContent(a, b), StructureSim |-> simStructure(a, b),
     VisualSim |-> simVisual(a, b), BehaviorSim |-> simBehavior(a, b),
     SimilarityToCanonical |-> totalSim(simContent(a, b), simStructure(a, b),
                                        simVisual(a, b), simBehavior(a, b))]

\* the five scores of a URLReport that was given none: 0.0 each
ZeroSimilarities ==
    LET zeroCos == [dot |-> 0, normA |-> 1, normB |-> 1]
        zeroStruct == [dom |-> zeroCos, path |-> [inter |-> 0, uni |-> 1]]
    IN  [ContentSim |-> [num |-> 0, den |-> 16], StructureSim |-> zeroStruct,
         VisualSim |-> [num |-> 0, den |-> 20], BehaviorSim |-> zeroCos,
         SimilarityToCanonical |-> totalSim([num |-> 0, den |-> 16], zeroStruct,
                                            [num |-> 0, den |-> 20], zeroCos)]

\* IsDuplicate with the behavior score added to its predicate
IsDuplicate_ContentOnly(a, b) == 100 * simContentNum(a, b) >= 97 * 16

IsDuplicate_WithBehavior(a, b) ==
    LET contentNum == simContentNum(a, b)
        visualNum  == simVisualNum(a, b)
    IN  /\ simBehavior(a, b).dot > 0
        /\ \/ /\ 100 * contentNum >= 97 * 16
              /\ StructureAtLeast085(a, b) \/ 100 * visualNum >= 85 * 20
           \/ 100 * visualNum >= 99 * 20

IsDuplicate(a, b) ==
    LET contentNum == simContentNum(a, b)
        visualNum  == simVisualNum(a, b)
    IN  \/ /\ 100 * contentNum >= 97 * 16
           /\ StructureAtLeast085(a, b) \/ 100 * visualNum >= 85 * 20
        \/ 100 * visualNum >= 99 * 20

-----------------------------------------------------------------------------
(* Clustering engine.  A page is a PageWithFeatures: the FetchResult and   *)
(* the features (NilFeatures for nil).                                     *)

quickSimHashCheck(a, b) ==
    IF a = NilFeatures \/ b = NilFeatures THEN FALSE
    ELSE IF hammingDistance64(a.TextSimHash, b.TextSimHash) > QuickSimHashMaxDist THEN FALSE
    ELSE IF a.TextLength = 0 \/ b.TextLength = 0 THEN FALSE
    ELSE 2 * Min2(a.TextLength, b.TextLength) >= Max2(a.TextLength, b.TextLength)

\* (textSimHash >> 48) & 0xFFFF
Top16Bits(hash) == { i \in hash : i >= 48 }

\* md5 of "host|top16|lengthBucket", taken as collision free
generateBucketKey(page) ==
    << HostPort(page.FetchResult.FinalURL),
       Top16Bits(page.Features.TextSimHash),
       page.Features.TextLength \div 1000 >>

\* the order of sort.Slice without its last key, the id
CanonicalLess_NoIDTieBreak(a, b) ==
    IF a.FetchResult.StatusCode = 200 /\ b.FetchResult.StatusCode # 200 THEN TRUE
    ELSE IF a.FetchResult.StatusCode # 200 /\ b.FetchResult.StatusCode = 200 THEN FALSE
    ELSE IF /\ a.Features # NilFeatures /\ b.Features # NilFeatures
            /\ a.Features.TextLength # b.Features.TextLength
         THEN a.Features.TextLength > b.Features.TextLength
    ELSE FALSE

\* the order of sort.Slice in selectCanonical
CanonicalLess(a, b) ==
    IF a.FetchResult.StatusCode = 200 /\ b.FetchResult.StatusCode # 200 THEN TRUE
    ELSE IF a.FetchResult.StatusCode # 200 /\ b.FetchResult.StatusCode = 200 THEN FALSE
    ELSE IF /\ a.Features # NilFeatures /\ b.Features # NilFeatures
            /\ a.Features.TextLength # b.Features.TextLength
         THEN a.Features.TextLength > b.Features.TextLength
    ELSE a.FetchResult.ID < b.FetchResult.ID

\* one round of the insertion sort: x moves left past every element it is
\* less than, until the first one it is not less than
InsertPage(sorted, x) ==
    LET j == CHOOSE k \in 0..Len(sorted) :
                 /\ \A q \in (k + 1)..Len(sorted) : CanonicalLess(x, sorted[q])
                 /\ k = 0 \/ ~CanonicalLess(x, sorted[k])
    IN  SubSeq(sorted, 1, j) \o << x >> \o SubSeq(sorted, j + 1, Len(sorted))

\* the slice as sort.Slice leaves it: slices of fewer than 12 elements are
\* sorted by insertion, from the order they come in
RECURSIVE SortPages(_)
SortPages(pages) ==
    IF Len(pages) <= 1 THEN pages
    ELSE InsertPage(SortPages(SubSeq(pages, 1, Len(pages) - 1)), pages[Len(pages)])

\* the last element of the sorted slice instead of the first
selectCanonical_Last(pages) == SortPages(pages)[Len(pages)]

\* selectCanonical sorts its argument in place and returns element 0
selectCanonical(pages) == SortPages(pages)[1]

NewUnionFind(size) == [parent |-> [i \in 1..size |-> i], rank |-> [i \in 1..size |-> 0]]

RECURSIVE FindRoot(_, _)
FindRoot(parent, x) == IF parent[x] = x THEN x ELSE FindRoot(parent, parent[x])

RECURSIVE PathNodes(_, _)
PathNodes(parent, x) == IF parent[x] = x THEN {} ELSE {x} \cup PathNodes(parent, parent[x])

\* the union-find after Find(x): the nodes on the path point at the root
Find(uf, x) ==
    [uf EXCEPT !.parent = [z \in DOMAIN uf.parent |->
        IF z \in PathNodes(uf.parent, x) THEN FindRoot(uf.parent, x) ELSE uf.parent[z]]]

Union(uf, x, y) ==
    LET u1 == Find(Find(uf, x), y)
        rootX == FindRoot(uf.parent, x)
        rootY == FindRoot(uf.parent, y)
    IN  IF rootX = rootY THEN u1
        ELSE IF u1.rank[rootX] < u1.rank[rootY]
             THEN [u1 EXCEPT !.parent[rootX] = rootY]
        ELSE IF u1.rank[rootX] > u1.rank[rootY]
             THEN [u1 EXCEPT !.parent[rootY] = rootX]
        ELSE [u1 EXCEPT !.parent[rootY] = rootX, !.rank[rootX] = @ + 1]

\* root -> member indices
GetClusters(uf) ==
    [r \in { FindRoot(uf.parent, i) : i \in DOMAIN uf.parent } |->
        { i \in DOMAIN uf.parent : FindRoot(uf.parent, i) = r }]

\* Cluster, first loop of a bucket: every page against the bucket canonical
FirstPass(bucketPages, canonicalIdx) ==
    LET n == Len(bucketPages)
        canonical == bucketPages[canonicalIdx]
        f[i \in 0..n] ==
            IF i = 0 THEN NewUnionFind(n)
            ELSE IF i = canonicalIdx THEN f[i - 1]
            ELSE IF ~quickSimHashCheck(canonical.Features, bucketPages[i].Features) THEN f[i - 1]
            ELSE IF IsDuplicate(canonical.Features, bucketPages[i].Features)
                 THEN Union(f[i - 1], canonicalIdx, i)
            ELSE f[i - 1]
    IN  f[n]

\* the second loop without the skip of the pages merged with the canonical
SecondPass_NoSkip(bucketPages, canonicalIdx, uf0) ==
    LET n == Len(bucketPages)
        pairAt(k) == << ((k - 1) \div n) + 1, ((k - 1) % n) + 1 >>
        f[k \in 0..(n * n)] ==
            IF k = 0 THEN uf0
            ELSE LET i == pairAt(k)[1]
                     j == pairAt(k)[2]
                     uf == f[k - 1]
                 IN  IF j <= i THEN uf
                     ELSE IF i = canonicalIdx \/ j = canonicalIdx THEN uf
                     ELSE IF ~quickSimHashCheck(bucketPages[i].Features, bucketPages[j].Features) THEN uf
                     ELSE IF IsDuplicate(bucketPages[i].Features, bucketPages[j].Features)
                          THEN Union(uf, i, j)
                     ELSE uf
    IN  f[n * n]

\* Cluster, second loop of a bucket: the pages not merged with the canonical,
\* pairwise; the pairs (i, j), i < j, are visited in the order of the two loops
SecondPass(bucketPages, canonicalIdx, uf0) ==
    LET n == Len(bucketPages)
        pairAt(k) == << ((k - 1) \div n) + 1, ((k - 1) % n) + 1 >>
        merged(uf, i) == FindRoot(uf.parent, i) = FindRoot(uf.parent, canonicalIdx)
        f[k \in 0..(n * n)] ==
            IF k = 0 THEN uf0
            ELSE LET i == pairAt(k)[1]
                     j == pairAt(k)[2]
                     uf == f[k - 1]
                 IN  IF j <= i THEN uf
                     ELSE IF i = canonicalIdx \/ merged(uf, i) THEN uf
                     ELSE IF j = canonicalIdx \/ merged(uf, j) THEN uf
                     ELSE IF ~quickSimHashCheck(bucketPages[i].Features, bucketPages[j].Features) THEN uf
                     ELSE IF IsDuplicate(bucketPages[i].Features, bucketPages[j].Features)
                          THEN Union(uf, i, j)
                     ELSE uf
    IN  f[n * n]

\* the cluster groups of one bucket with the groups of one member kept
BucketGroups_KeepSingletons(bucket) ==
    LET bucketPages == SortPages(bucket)
        canonicalIdx == CHOOSE i \in 1..Len(bucketPages) :
                            /\ bucketPages[i].FetchResult.ID = selectCanonical(bucketPages).FetchResult.ID
                            /\ \A j \in 1..(i - 1) :
                                  bucketPages[j].FetchResult.ID # selectCanonical(bucketPages).FetchResult.ID
        uf == SecondPass(bucketPages, canonicalIdx, FirstPass(bucketPages, canonicalIdx))
        clusters == GetClusters(uf)
    IN  IF Len(bucket) < 2 THEN {}
        ELSE { [Canonical |-> selectCanonical([i \in 1..Cardinality(clusters[r]) |->
                                    bucketPages[Ascending(clusters[r])[i]]]),
                Members |-> SortPages([i \in 1..Cardinality(clusters[r]) |->
                                    bucketPages[Ascending(clusters[r])[i]]])] :
               r \in DOMAIN clusters }

\* the cluster groups of one bucket, without their ids
BucketGroups(bucket) ==
    LET bucketPages == SortPages(bucket)
        canonicalIdx == CHOOSE i \in 1..Len(bucketPages) :
                            /\ bucketPages[i].FetchResult.ID = selectCanonical(bucketPages).FetchResult.ID
                            /\ \A j \in 1..(i - 1) :
                                  bucketPages[j].FetchResult.ID # selectCanonical(bucketPages).FetchResult.ID
        uf == SecondPass(bucketPages, canonicalIdx, FirstPass(bucketPages, canonicalIdx))
        clusters == GetClusters(uf)
    IN  IF Len(bucket) < 2 THEN {}
        ELSE { [Canonical |-> selectCanonical([i \in 1..Cardinality(clusters[r]) |->
                                    bucketPages[Ascending(clusters[r])[i]]]),
                Members |-> SortPages([i \in 1..Cardinality(clusters[r]) |->
                                    bucketPages[Ascending(clusters[r])[i]]])] :
               r \in { q \in DOMAIN clusters : Cardinality(clusters[q]) >= 2 } }

\* the buckets: per key the pages with features, in the order of the input
Buckets(pages) ==
    LET withFeatures == { p \in Range(pages) : p.Features # NilFeatures }
        InBucket(k) ==
            LET hasKey(p) == p.Features # NilFeatures /\ generateBucketKey(p) = k
            IN  SelectSeq(pages, hasKey)
    IN  { InBucket(k) : k \in { generateBucketKey(p) : p \in withFeatures } }

\* the groups Cluster builds; their ids follow the iteration order of two maps
ClusterGroups(pages) == UNION { BucketGroups(b) : b \in Buckets(pages) }

Str_cluster == << "c", "l", "u", "s", "t", "e", "r", "-" >>

\* Cluster: the groups numbered 1, 2, ... in the order the maps were iterated
Cluster(pages, order) ==
    [cid \in { Str_cluster \o Dec5(k) : k \in 1..Len(order) } |->
        LET k == CHOOSE n \in 1..Len(order) : Str_cluster \o Dec5(n) = cid
        IN  [ClusterID |-> cid, Canonical |-> order[k].Canonical, Members |-> order[k].Members]]

\* the orders in which a set of groups can be met
Orders(S) == { s \in [1..Cardinality(S) -> S] : Range(s) = S }

-----------------------------------------------------------------------------
(* Feature extraction and eligibility *)

\* parsePerfTiming: the three timings relative to navigationStart; nothing is
\* stored when navigationStart is 0
parsePerfTiming(features, timing) ==
    IF timing.NavigationStart = 0 THEN features
    ELSE [features EXCEPT !.TTFB = timing.ResponseStart - timing.NavigationStart,
                          !.DOMContentLoaded =
                              timing.DomContentLoadedEventEnd - timing.NavigationStart,
                          !.LoadEvent = timing.LoadEventEnd - timing.NavigationStart]

ExtractNonHTMLFeatures(category, body) ==
    IF body.len = 0 THEN NilFeatures
    ELSE IF category = ContentCategoryText
         THEN [ZeroFeatures EXCEPT !.Category = category,
                                   !.TextLength = body.tlen, !.TextSimHash = body.thash]
    ELSE IF category = ContentCategoryImage
         THEN IF body.decodes
              THEN [ZeroFeatures EXCEPT !.Category = category,
                                        !.ScreenshotW = body.w, !.ScreenshotH = body.h,
                                        !.PHash = body.phash, !.TextLength = body.len]
              ELSE [ZeroFeatures EXCEPT !.Category = ContentCategoryBinary,
                                        !.TextSimHash = body.md5, !.TextLength = body.len]
    ELSE IF category = ContentCategoryBinary
         THEN [ZeroFeatures EXCEPT !.Category = category,
                                   !.TextSimHash = body.md5, !.TextLength = body.len]
    ELSE NilFeatures

isEligibleHTML(result) ==
    /\ Is2xx(result.StatusCode)
    /\ result.ContentCategory = ContentCategoryHTML
    /\ result.RawHTML.len >= MinHTMLSize

isEligibleNonHTML(result) ==
    /\ Is2xx(result.StatusCode)
    /\ \/ result.ContentCategory = ContentCategoryText /\ result.RawBody.len >= MinTextSize
       \/ result.ContentCategory = ContentCategoryImage /\ result.RawBody.len >= MinImageSize
       \/ result.ContentCategory = ContentCategoryBinary /\ result.RawBody.len >= MinBinarySize

\* Run, lines 86-114: the page a non-HTML result adds to pagesWithFeatures
NonHTMLPages(fr) ==
    LET features == ExtractNonHTMLFeatures(fr.ContentCategory, fr.RawBody)
        eligible ==
            IF features = NilFeatures THEN FALSE
            ELSE IF fr.ContentCategory = ContentCategoryText THEN features.TextLength >= MinTextLength
            ELSE IF fr.ContentCategory = ContentCategoryImage THEN features.PHash # {}
            ELSE IF fr.ContentCategory = ContentCategoryBinary THEN features.TextLength > 0
            ELSE FALSE
    IN  IF eligible THEN << [FetchResult |-> fr, Features |-> features] >> ELSE << >>

RECURSIVE NonHTMLPagesOf(_)
NonHTMLPagesOf(frs) ==
    IF frs = << >> THEN << >> ELSE NonHTMLPages(Head(frs)) \o NonHTMLPagesOf(Tail(frs))

-----------------------------------------------------------------------------
(* Report builder *)

NilReport == [nil |-> TRUE]

\* BuildReport, the cluster fields of one URL report with the rule map read
\* before the content clusters
buildURLReport_RuleFirst(fr, pageMap, clusterByPageID, canonicalByCluster, ruleAssignments) ==
    LET base == [ID |-> fr.ID, NormalizedURL |-> fr.NormalizedURL,
                 FinalURL |-> fr.FinalURL, StatusCode |-> fr.StatusCode,
                 Error |-> fr.Error, ClusterID |-> << >>, IsCanonical |-> FALSE]
    IN  IF fr.ID \in DOMAIN ruleAssignments
        THEN [base EXCEPT !.ClusterID = ruleAssignments[fr.ID].ClusterID,
                          !.IsCanonical = ruleAssignments[fr.ID].IsCanonical]
             @@ ZeroSimilarities
        ELSE IF /\ fr.ID \in DOMAIN pageMap
                /\ pageMap[fr.ID].Features # NilFeatures
                /\ fr.ID \in DOMAIN clusterByPageID
        THEN [base EXCEPT !.ClusterID = clusterByPageID[fr.ID],
                          !.IsCanonical = (fr.ID = canonicalByCluster[clusterByPageID[fr.ID]])]
             @@ CalculateSimilarities(pageMap[fr.ID].Features,
                   pageMap[canonicalByCluster[clusterByPageID[fr.ID]]].Features)
        ELSE [base EXCEPT !.ClusterID = << >>, !.IsCanonical = TRUE] @@ ZeroSimilarities

\* BuildReport, the body of the loop over the fetch results: one URL report
buildURLReport(fr, pageMap, clusterByPageID, canonicalByCluster, ruleAssignments) ==
    LET base == [ID |-> fr.ID, NormalizedURL |-> fr.NormalizedURL,
                 FinalURL |-> fr.FinalURL, StatusCode |-> fr.StatusCode,
                 Error |-> fr.Error, ClusterID |-> << >>, IsCanonical |-> FALSE]
    IN  IF /\ fr.ID \in DOMAIN pageMap
           /\ pageMap[fr.ID].Features # NilFeatures
           /\ fr.ID \in DOMAIN clusterByPageID
        THEN [base EXCEPT !.ClusterID = clusterByPageID[fr.ID],
                          !.IsCanonical = (fr.ID = canonicalByCluster[clusterByPageID[fr.ID]])]
             \* the scores against the canonical of the cluster
             @@ CalculateSimilarities(pageMap[fr.ID].Features,
                   pageMap[canonicalByCluster[clusterByPageID[fr.ID]]].Features)
        ELSE IF fr.ID \in DOMAIN ruleAssignments
        THEN [base EXCEPT !.ClusterID = ruleAssignments[fr.ID].ClusterID,
                          !.IsCanonical = ruleAssignments[fr.ID].IsCanonical]
             @@ ZeroSimilarities
        ELSE [base EXCEPT !.ClusterID = << >>, !.IsCanonical = TRUE] @@ ZeroSimilarities

BuildReport(frs, pages, clusters, ruleAssignments, options) ==
    LET pageIDs == { pages[i].FetchResult.ID : i \in 1..Len(pages) }
        \* pageMap[page.ID] = page: the last page of an id stays
        pageMap == [id \in pageIDs |->
                       pages[CHOOSE i \in 1..Len(pages) :
                                /\ pages[i].FetchResult.ID = id
                                /\ \A j \in (i + 1)..Len(pages) : pages[j].FetchResult.ID # id]]
        memberIDs(cid) == { clusters[cid].Members[i].FetchResult.ID :
                               i \in 1..Len(clusters[cid].Members) }
        clusterByPageID == [id \in UNION { memberIDs(cid) : cid \in DOMAIN clusters } |->
                               CHOOSE cid \in DOMAIN clusters : id \in memberIDs(cid)]
        canonicalByCluster == [cid \in DOMAIN clusters |-> clusters[cid].Canonical.FetchResult.ID]
        urlReport(fr) ==
            buildURLReport(fr, pageMap, clusterByPageID, canonicalByCluster, ruleAssignments)
    IN  [urls |-> [i \in 1..Len(frs) |-> urlReport(frs[i])],
         clusters |-> { [ClusterID |-> cid,
                         CanonicalURL |-> clusters[cid].Canonical.FetchResult.FinalURL,
                         MemberIDs |-> [i \in 1..Len(clusters[cid].Members) |->
                                           clusters[cid].Members[i].FetchResult.ID]] :
                        cid \in DOMAIN clusters },
         meta |-> [TotalURLs |-> Len(frs),
                   SimThreshold |-> options.SimThreshold,
                   EligibleHTMLURLs |-> Cardinality({ i \in 1..Len(frs) :
                        frs[i].ID \in DOMAIN pageMap /\ pageMap[frs[i].ID].Features # NilFeatures }),
                   TotalClusters |-> Cardinality(DOMAIN clusters)]]

-----------------------------------------------------------------------------
(* The inputs of the model: what the network and the browser answer.       *)

NumURLs     == 3    \* URLs loaded by Run
MaxParallel == 2    \* largest Options.Parallel / Options.RenderParallel

HostAB  == << "a", "b" >>
HostADB == << "a", ".", "b" >>
URLOf(host, path) == [scheme |-> Http, host |-> host, port |-> << >>, path |-> path]

HtmlBody(len, kw, fpLen, fpHash) ==
    [NilBytes EXCEPT !.len = len, !.kw = kw, !.fpLen = fpLen, !.fpHash = fpHash]

\* two rendered pages that are duplicates of each other (same text SimHash,
\* same DOM), and the image whose perceptual hash feeds the visual score
FeatA ==
    [ZeroFeatures EXCEPT !.TextSimHash = {1, 50}, !.TextLength = 250,
                         !.DOMNodeCount = 3, !.TextNodeCount = 2,
                         !.TagCount = [t \in {"div", "a"} |-> IF t = "div" THEN 2 ELSE 1],
                         !.PathCount = [k \in {"html>body>div"} |-> 2],
                         !.ScreenshotW = 800, !.ScreenshotH = 600, !.PHash = {5},
                         !.TTFB = 10, !.DOMContentLoaded = 20, !.LoadEvent = 30]
FeatB == [FeatA EXCEPT !.TextLength = 260, !.PHash = {5, 6}]

ImageBody ==
    [NilBytes EXCEPT !.len = 2000, !.decodes = TRUE, !.phash = {3}, !.w = 100, !.h = 100,
                     !.md5 = {7}]

\* outcome: "ok", "reqfail" (tempClient.Do fails) or "readfail" (io.ReadAll fails)
SiteKinds ==
    { [url |-> URLOf(HostAB, << "/" >>), outcome |-> "ok", status |-> 200, ct |-> CtHTML,
       html |-> HtmlBody(2048, {KwLogin}, 300, 1), body |-> NilBytes,
       renderOK |-> TRUE, rendered |-> FeatA],
      [url |-> URLOf(HostAB, << "/", "b" >>), outcome |-> "ok", status |-> 200, ct |-> CtHTML,
       html |-> HtmlBody(2048, {KwLogin}, 310, 1), body |-> NilBytes,
       renderOK |-> TRUE, rendered |-> FeatB],
      [url |-> URLOf(HostAB, << "/", "c" >>), outcome |-> "reqfail", status |-> 0, ct |-> "",
       html |-> NilBytes, body |-> NilBytes, renderOK |-> FALSE, rendered |-> ZeroFeatures],
      [url |-> URLOf(HostAB, << "/", "i" >>), outcome |-> "ok", status |-> 200, ct |-> CtPNG,
       html |-> NilBytes, body |-> ImageBody, renderOK |-> FALSE, rendered |-> ZeroFeatures],
      [url |-> URLOf(HostAB, << "/", "e" >>), outcome |-> "ok", status |-> 404, ct |-> CtHTML,
       html |-> HtmlBody(300, {KwError}, 40, 2), body |-> NilBytes,
       renderOK |-> FALSE, rendered |-> ZeroFeatures],
      [url |-> URLOf(HostAB, << "/", "r" >>), outcome |-> "readfail", status |-> 200, ct |-> CtHTML,
       html |-> NilBytes, body |-> NilBytes, renderOK |-> FALSE, rendered |-> ZeroFeatures] }

\* the default of the flag -sim-threshold, in hundredths
DefaultSimThreshold == 85

\* the values of -sim-threshold of the runs that start after the last batch
SimThresholds == {DefaultSimThreshold, 50}

OptionSets ==
    [BatchSize : {0, 2}, Parallel : 1..MaxParallel, RenderParallel : 1..MaxParallel,
     SimThreshold : {DefaultSimThreshold}]

-----------------------------------------------------------------------------
(* Fetcher *)

\* Fetch, the paths that end with an error before a response is there
FetchRequestFailed(item) ==
    [ZeroFetchResult EXCEPT !.ID = item.ID, !.NormalizedURL = item.NormalizedURL,
                            !.Error = "request failed"]

\* Fetch, io.ReadAll fails: status, final URL and content type are set already
FetchReadFailed(item, s) ==
    [ZeroFetchResult EXCEPT !.ID = item.ID, !.NormalizedURL = item.NormalizedURL,
                            !.StatusCode = s.status, !.FinalURL = s.url,
                            !.ContentType = s.ct, !.Error = "read failed"]

FetchOK(item, s) ==
    LET category == categorizeContent(s.ct)
    IN  [ZeroFetchResult EXCEPT
            !.ID = item.ID, !.NormalizedURL = item.NormalizedURL,
            !.StatusCode = s.status, !.FinalURL = s.url, !.ContentType = s.ct,
            !.ContentCategory = category,
            !.RawHTML = IF category = ContentCategoryHTML THEN s.html ELSE NilBytes,
            !.RawBody = IF category \in {ContentCategoryText, ContentCategoryImage,
                                         ContentCategoryBinary} THEN s.body ELSE NilBytes]

\* the results Fetch can return for an item: what the site answers, or, once
\* the context is cancelled, a failure of the request or of the body read
Fetch(cancelled, item, s) ==
    IF cancelled
    THEN {FetchRequestFailed(item)}
         \cup (IF s.outcome = "reqfail" THEN {} ELSE {FetchReadFailed(item, s)})
    ELSE IF s.outcome = "reqfail" THEN {FetchRequestFailed(item)}
    ELSE IF s.outcome = "readfail" THEN {FetchReadFailed(item, s)}
    ELSE {FetchOK(item, s)}

\* FetchBatch: the result written when the context is found cancelled
FetchCancelledResult(item) ==
    [ZeroFetchResult EXCEPT !.ID = item.ID, !.NormalizedURL = item.NormalizedURL,
                            !.Error = "context cancelled"]

MaxRedirects == 5

ErrRedirectCap == "redirect limit exceeded"

\* CheckRedirect of the client of Fetch, called by the http client before it
\* follows a redirect, with via the requests sent so far: TRUE when the
\* redirect is followed
CheckRedirect(via, maxRedirects) == ~(Len(via) >= maxRedirects)

\* tempClient.Do: the server answers the request for s.url with the redirects
\* s.hops, one after the other, and then with the response.  via holds the
\* URLs requested so far.
RECURSIVE ClientDo(_, _, _, _)
ClientDo(s, via, redirectChain, maxRedirects) ==
    IF Len(via) > Len(s.hops)
    THEN [err |-> "", url |-> via[Len(via)], redirectChain |-> redirectChain]
    ELSE IF ~CheckRedirect(via, maxRedirects)
         THEN [err |-> ErrRedirectCap, url |-> NoURL, redirectChain |-> redirectChain]
    ELSE ClientDo(s, Append(via, s.hops[Len(via)]),
                  Append(redirectChain, s.hops[Len(via)]), maxRedirects)

\* Fetch with the redirect chain it records: the start, the hops, and the
\* final URL when it is not the last hop
FetchFollowing(item, s, maxRedirects) ==
    LET done == ClientDo(s, << s.url >>, << >>, maxRedirects)
        finalURL == done.url
        chain == << item.NormalizedURL >> \o done.redirectChain
                 \o (IF /\ finalURL # item.NormalizedURL
                         /\ \/ Len(done.redirectChain) = 0
                            \/ done.redirectChain[Len(done.redirectChain)] # finalURL
                      THEN << finalURL >> ELSE << >>)
    IN  IF done.err # ""
        THEN { [FetchRequestFailed(item) EXCEPT !.Error = done.err]
                   @@ [RedirectChain |-> << item.NormalizedURL >>] }
        ELSE { r @@ [RedirectChain |-> IF r = FetchRequestFailed(item)
                                       THEN << item.NormalizedURL >> ELSE chain] :
                 r \in Fetch(FALSE, item, [s EXCEPT !.url = finalURL]) }

-----------------------------------------------------------------------------
(* Run *)

Items == [i \in 1..NumURLs |-> [ID |-> i, NormalizedURL |-> site[i].url]]

BatchSizeOf == IF opts.BatchSize <= 0 THEN NumURLs ELSE opts.BatchSize
TotalBatches == (NumURLs + BatchSizeOf - 1) \div BatchSizeOf
BatchStart == batchIdx * BatchSizeOf
BatchEnd == Min2(BatchStart + BatchSizeOf, NumURLs)
\* batchItems[i], i counted from 1
BatchItem(i) == Items[BatchStart + i]
BatchLen == BatchEnd - BatchStart

FetchRunning == { i \in DOMAIN fetchGo : fetchGo[i].st = "running" }
Rendering == { i \in DOMAIN renderGo : renderGo[i] = "rendering" }
RenderLive == { i \in DOMAIN renderGo : renderGo[i] \in {"waiting", "rendering"} }

Init ==
    /\ site \in [1..NumURLs -> SiteKinds]
    /\ opts \in OptionSets
    /\ pc = "batch"
    /\ ctxDone = FALSE
    /\ batchIdx = 0
    /\ results = << >>
    /\ fetchI = 1
    /\ fetchGo = << >>
    /\ eligibleHTML = << >>
    /\ renderI = 1
    /\ renderGo = << >>
    /\ fetchResults = << >>
    /\ pagesWithFeatures = << >>
    /\ contentClusters = << >>
    /\ assignments = NoAssignments
    /\ report = NilReport
    /\ runErr = ""

\* the caller cancels the context
Cancel ==
    /\ ~ctxDone
    /\ pc \notin {"done", "failed"}
    /\ ctxDone' = TRUE
    /\ UNCHANGED << site, opts, pc, batchIdx, results, fetchI, fetchGo, eligibleHTML,
                    renderI, renderGo, fetchResults, pagesWithFeatures, contentClusters,
                    assignments, report, runErr >>

\* the head of the batch loop without its select on ctx.Done()
BatchBegin_NoCtxCheck ==
    /\ pc = "batch"
    /\ IF batchIdx >= TotalBatches
       THEN /\ pc' = "cluster"
            /\ UNCHANGED << results, fetchI, fetchGo, runErr >>
       ELSE /\ pc' = "fetchLoop"
            /\ results' = [i \in 1..BatchLen |-> ZeroFetchResult]
            /\ fetchI' = 1
            /\ fetchGo' = [i \in 1..BatchLen |-> [st |-> "none", it |-> 0]]
            /\ UNCHANGED runErr
    /\ UNCHANGED << site, opts, ctxDone, batchIdx, eligibleHTML, renderI, renderGo,
                    fetchResults, pagesWithFeatures, contentClusters, assignments, report >>

\* Run, lines 50-67: the head of the batch loop up to the call of FetchBatch
BatchBegin ==
    /\ pc = "batch"
    /\ IF batchIdx >= TotalBatches
       THEN /\ pc' = "cluster"
            /\ UNCHANGED << results, fetchI, fetchGo, runErr >>
       ELSE IF ctxDone
       THEN /\ pc' = "failed"
            /\ runErr' = "context canceled"
            /\ UNCHANGED << results, fetchI, fetchGo >>
       ELSE /\ pc' = "fetchLoop"
            /\ results' = [i \in 1..BatchLen |-> ZeroFetchResult]
            /\ fetchI' = 1
            /\ fetchGo' = [i \in 1..BatchLen |-> [st |-> "none", it |-> 0]]
            /\ UNCHANGED runErr
    /\ UNCHANGED << site, opts, ctxDone, batchIdx, eligibleHTML, renderI, renderGo,
                    fetchResults, pagesWithFeatures, contentClusters, assignments, report >>

\* FetchBatch, lines 146-157: the context is cancelled; the remaining slots are
\* filled and the results are returned at once
FetchBatchCancelled ==
    /\ pc = "fetchLoop"
    /\ fetchI <= BatchLen
    /\ ctxDone
    /\ results' = [j \in 1..BatchLen |->
                      IF j >= fetchI THEN FetchCancelledResult(BatchItem(j)) ELSE results[j]]
    /\ pc' = "classify"
    /\ UNCHANGED << site, opts, ctxDone, batchIdx, fetchI, fetchGo, eligibleHTML, renderI,
                    renderGo, fetchResults, pagesWithFeatures, contentClusters, assignments,
                    report, runErr >>

\* the goroutine of the next item started without a slot of sem being taken
FetchBatchSpawn_NoSemaphore ==
    /\ pc = "fetchLoop"
    /\ fetchI <= BatchLen
    /\ ~ctxDone
    /\ fetchGo' = [fetchGo EXCEPT ![fetchI] = [st |-> "running", it |-> BatchItem(fetchI).ID]]
    /\ fetchI' = fetchI + 1
    /\ UNCHANGED << site, opts, pc, ctxDone, batchIdx, results, eligibleHTML, renderI,
                    renderGo, fetchResults, pagesWithFeatures, contentClusters, assignments,
                    report, runErr >>

\* FetchBatch, lines 161-179: a semaphore slot is taken and the goroutine started
FetchBatchSpawn ==
    /\ pc = "fetchLoop"
    /\ fetchI <= BatchLen
    /\ ~ctxDone
    /\ Cardinality(FetchRunning) < opts.Parallel
    /\ fetchGo' = [fetchGo EXCEPT ![fetchI] = [st |-> "running", it |-> BatchItem(fetchI).ID]]
    /\ fetchI' = fetchI + 1
    /\ UNCHANGED << site, opts, pc, ctxDone, batchIdx, results, eligibleHTML, renderI,
                    renderGo, fetchResults, pagesWithFeatures, contentClusters, assignments,
                    report, runErr >>

\* FetchBatch, lines 182-183: wg.Wait after the loop has ended
FetchBatchWait ==
    /\ pc = "fetchLoop"
    /\ fetchI > BatchLen
    /\ FetchRunning = {}
    /\ pc' = "classify"
    /\ UNCHANGED << site, opts, ctxDone, batchIdx, results, fetchI, fetchGo, eligibleHTML,
                    renderI, renderGo, fetchResults, pagesWithFeatures, contentClusters,
                    assignments, report, runErr >>

\* FetchBatch, lines 163-179: the goroutine of slot idx checks the context,
\* fetches, writes results[idx] and gives its semaphore slot back
FetchGoroutine(idx) ==
    /\ idx \in FetchRunning
    /\ LET it == Items[fetchGo[idx].it]
       IN  \E r \in Fetch(ctxDone, it, site[it.ID])
                     \cup (IF ctxDone THEN {FetchCancelledResult(it)} ELSE {}) :
              results' = [results EXCEPT ![idx] = r]
    /\ fetchGo' = [fetchGo EXCEPT ![idx].st = "done"]
    /\ UNCHANGED << site, opts, pc, ctxDone, batchIdx, fetchI, eligibleHTML, renderI,
                    renderGo, fetchResults, pagesWithFeatures, contentClusters, assignments,
                    report, runErr >>

\* Run, lines 70-114: the results are sorted into HTML to render and non-HTML,
\* whose features are extracted at once
Classify ==
    /\ pc = "classify"
    /\ eligibleHTML' = SelectSeq(results, isEligibleHTML)
    /\ pagesWithFeatures' = pagesWithFeatures
          \o NonHTMLPagesOf(SelectSeq(results, LAMBDA fr : ~isEligibleHTML(fr) /\ isEligibleNonHTML(fr)))
    /\ renderI' = 1
    /\ renderGo' = [i \in 1..Len(eligibleHTML') |-> "none"]
    /\ pc' = "renderLoop"
    /\ UNCHANGED << site, opts, ctxDone, batchIdx, results, fetchI, fetchGo, fetchResults,
                    contentClusters, assignments, report, runErr >>

\* Run, lines 122-132: the context is cancelled, the remaining renders are skipped
RenderLoopCancelled ==
    /\ pc = "renderLoop"
    /\ renderI <= Len(eligibleHTML)
    /\ ctxDone
    /\ pc' = "renderWait"
    /\ UNCHANGED << site, opts, ctxDone, batchIdx, results, fetchI, fetchGo, eligibleHTML,
                    renderI, renderGo, fetchResults, pagesWithFeatures, contentClusters,
                    assignments, report, runErr >>

\* Run, lines 134-135: the render goroutine of the next eligible page is started
RenderSpawn ==
    /\ pc = "renderLoop"
    /\ renderI <= Len(eligibleHTML)
    /\ ~ctxDone
    /\ renderGo' = [renderGo EXCEPT ![renderI] = "waiting"]
    /\ renderI' = renderI + 1
    /\ UNCHANGED << site, opts, pc, ctxDone, batchIdx, results, fetchI, fetchGo, eligibleHTML,
                    fetchResults, pagesWithFeatures, contentClusters, assignments, report,
                    runErr >>

RenderLoopEnd ==
    /\ pc = "renderLoop"
    /\ renderI > Len(eligibleHTML)
    /\ pc' = "renderWait"
    /\ UNCHANGED << site, opts, ctxDone, batchIdx, results, fetchI, fetchGo, eligibleHTML,
                    renderI, renderGo, fetchResults, pagesWithFeatures, contentClusters,
                    assignments, report, runErr >>

\* Renderer.ExtractFeatures, line 821: a slot of workerPool is taken
RenderAcquire(idx) ==
    /\ idx \in DOMAIN renderGo
    /\ renderGo[idx] = "waiting"
    /\ Cardinality(Rendering) < opts.RenderParallel
    /\ renderGo' = [renderGo EXCEPT ![idx] = "rendering"]
    /\ UNCHANGED << site, opts, pc, ctxDone, batchIdx, results, fetchI, fetchGo, eligibleHTML,
                    renderI, fetchResults, pagesWithFeatures, contentClusters, assignments,
                    report, runErr >>

\* Renderer.ExtractFeatures returns (an error when the context is cancelled or
\* the page does not render); Run, lines 146-168: the page is appended
RenderGoroutine(idx) ==
    /\ idx \in DOMAIN renderGo
    /\ renderGo[idx] = "rendering"
    /\ LET fr == eligibleHTML[idx]
           s == site[fr.ID]
           extracted == IF ctxDone \/ ~s.renderOK THEN NilFeatures ELSE s.rendered
           features == IF extracted # NilFeatures /\ extracted.TextLength < MinTextLength
                       THEN NilFeatures ELSE extracted
       IN  pagesWithFeatures' = Append(pagesWithFeatures, [FetchResult |-> fr, Features |-> features])
    /\ renderGo' = [renderGo EXCEPT ![idx] = "done"]
    /\ UNCHANGED << site, opts, pc, ctxDone, batchIdx, results, fetchI, fetchGo, eligibleHTML,
                    renderI, fetchResults, contentClusters, assignments, report, runErr >>

\* Run, line 172: wg.Wait
RenderWait ==
    /\ pc = "renderWait"
    /\ RenderLive = {}
    /\ pc' = "strip"
    /\ UNCHANGED << site, opts, ctxDone, batchIdx, results, fetchI, fetchGo, eligibleHTML,
                    renderI, renderGo, fetchResults, pagesWithFeatures, contentClusters,
                    assignments, report, runErr >>

\* Run, lines 186-190: the raw bodies of the batch are dropped
StripBodies ==
    /\ pc = "strip"
    /\ results' = [i \in DOMAIN results |->
                      [results[i] EXCEPT !.RawHTML = NilBytes, !.RawBody = NilBytes]]
    /\ pc' = "append"
    /\ UNCHANGED << site, opts, ctxDone, batchIdx, fetchI, fetchGo, eligibleHTML, renderI,
                    renderGo, fetchResults, pagesWithFeatures, contentClusters, assignments,
                    report, runErr >>

\* Run, lines 191-194: the batch is appended (copied) and the next batch begins
AppendBatch ==
    /\ pc = "append"
    /\ fetchResults' = fetchResults \o results
    /\ batchIdx' = batchIdx + 1
    /\ pc' = "batch"
    /\ UNCHANGED << site, opts, ctxDone, results, fetchI, fetchGo, eligibleHTML, renderI,
                    renderGo, pagesWithFeatures, contentClusters, assignments, report, runErr >>

\* Run, line 199
ClusterStep ==
    /\ pc = "cluster"
    /\ \E order \in Orders(ClusterGroups(pagesWithFeatures)) :
          contentClusters' = Cluster(pagesWithFeatures, order)
    /\ pc' = "E1"
    /\ UNCHANGED << site, opts, ctxDone, batchIdx, results, fetchI, fetchGo, eligibleHTML,
                    renderI, renderGo, fetchResults, pagesWithFeatures, assignments, report,
                    runErr >>

RuleUnchanged ==
    UNCHANGED << site, opts, ctxDone, batchIdx, results, fetchI, fetchGo, eligibleHTML,
                 renderI, renderGo, fetchResults, pagesWithFeatures, contentClusters,
                 report, runErr >>

\* BuildRuleAssignments, lines 125-159: the maps are built and rule E1 applied
RuleE1 ==
    /\ pc = "E1"
    /\ \E order \in Orders(DOMAIN OriginMap(fetchResults)) :
          assignments' = applyRuleE1(OriginMap(fetchResults), NoAssignments, order)
    /\ pc' = "E3"
    /\ RuleUnchanged

RuleE3 ==
    /\ pc = "E3"
    /\ \E order \in Orders(DOMAIN OriginMap(fetchResults)) :
          assignments' = applyRuleE3(OriginMap(fetchResults), assignments, order)
    /\ pc' = "L1"
    /\ RuleUnchanged

RuleL1 ==
    /\ pc = "L1"
    /\ \E order \in Orders(DOMAIN OriginMap(fetchResults)) :
          assignments' = applyRuleL1(OriginMap(fetchResults), assignments, order)
    /\ pc' = "W1"
    /\ RuleUnchanged

RuleW1 ==
    /\ pc = "W1"
    /\ \E order \in Orders(DOMAIN OriginMap(fetchResults)) :
          assignments' = applyRuleW1(OriginMap(fetchResults), assignments, order)
    /\ pc' = "M1"
    /\ RuleUnchanged

RuleM1 ==
    /\ pc = "M1"
    /\ \E order \in Orders(DOMAIN OriginMap(fetchResults)) :
          assignments' = applyRuleM1(OriginMap(fetchResults), assignments, order)
    /\ pc' = "T1"
    /\ RuleUnchanged

RuleT1 ==
    /\ pc = "T1"
    /\ \E order \in Orders(DOMAIN OriginMap(fetchResults)) :
          assignments' = applyRuleT1(OriginMap(fetchResults), assignments, order)
    /\ pc' = "R1"
    /\ RuleUnchanged

RuleR1 ==
    /\ pc = "R1"
    /\ \E order \in Orders(DOMAIN FinalURLMap(fetchResults)) :
          assignments' = applyRuleR1(FinalURLMap(fetchResults), assignments, order)
    /\ pc' = "U1"
    /\ RuleUnchanged

RuleU1 ==
    /\ pc = "U1"
    /\ \E order \in Orders(DOMAIN OriginMap(fetchResults)) :
          assignments' = applyRuleU1(OriginMap(fetchResults), assignments, order)
    /\ pc' = "report"
    /\ RuleUnchanged

\* Run, lines 207-215
Report ==
    /\ pc = "report"
    /\ report' = BuildReport(fetchResults, pagesWithFeatures, contentClusters, assignments, opts)
    /\ pc' = "done"
    /\ UNCHANGED << site, opts, ctxDone, batchIdx, results, fetchI, fetchGo, eligibleHTML,
                    renderI, renderGo, fetchResults, pagesWithFeatures, contentClusters,
                    assignments, runErr >>

Next ==
    \/ Cancel
    \/ BatchBegin
    \/ FetchBatchCancelled
    \/ FetchBatchSpawn
    \/ FetchBatchWait
    \/ \E idx \in 1..NumURLs : FetchGoroutine(idx)
    \/ Classify
    \/ RenderLoopCancelled
    \/ RenderSpawn
    \/ RenderLoopEnd
    \/ \E idx \in 1..NumURLs : RenderAcquire(idx)
    \/ \E idx \in 1..NumURLs : RenderGoroutine(idx)
    \/ RenderWait
    \/ StripBodies
    \/ AppendBatch
    \/ ClusterStep
    \/ RuleE1
    \/ RuleE3
    \/ RuleL1
    \/ RuleW1
    \/ RuleM1
    \/ RuleT1
    \/ RuleR1
    \/ RuleU1
    \/ Report

Spec == Init /\ [][Next]_vars

-----------------------------------------------------------------------------
(* BuildRuleAssignments on its own: the fetch results are drawn from       *)
(* RuleKinds (bodies present), ids 1..NumRulePages, and the eight rules    *)
(* are applied one after the other.                                        *)

NumRulePages == 4   \* fetch results handed to BuildRuleAssignments

RuleKind(url, finalURL, status, ct, html) ==
    [ZeroFetchResult EXCEPT !.NormalizedURL = url, !.FinalURL = finalURL,
                            !.StatusCode = status, !.ContentType = ct,
                            !.ContentCategory = categorizeContent(ct), !.RawHTML = html]

LoginBody == HtmlBody(300, {KwLogin}, 50, 1)

RuleKinds ==
    { \* a 5xx login page, a bare 5xx page and a 200 login page of origin ab
      RuleKind(URLOf(HostAB, << "/" >>), URLOf(HostAB, << "/" >>), 500, CtHTML, LoginBody),
      RuleKind(URLOf(HostAB, << "/", "x" >>), URLOf(HostAB, << "/", "x" >>), 502, "", NilBytes),
      RuleKind(URLOf(HostAB, << "/", "y" >>), URLOf(HostAB, << "/", "y" >>), 200, CtHTML,
               HtmlBody(300, {KwLogin}, 55, 1)),
      \* a 5xx page of origin a.b
      RuleKind(URLOf(HostADB, << "/" >>), URLOf(HostADB, << "/" >>), 500, CtHTML, LoginBody),
      \* a 403 page and a thin 200 page with the same stripped text
      RuleKind(URLOf(HostAB, << "/", "f" >>), URLOf(HostAB, << "/", "f" >>), 403, CtHTML,
               HtmlBody(200, {}, 30, 65538)),
      RuleKind(URLOf(HostAB, << "/", "t" >>), URLOf(HostAB, << "/", "t" >>), 200, CtHTML,
               HtmlBody(200, {}, 30, 65538)),
      \* a redirect to the root page, answered with JSON
      RuleKind(URLOf(HostAB, << "/", "o" >>), URLOf(HostAB, IndexHtml), 200, CtJSON, NilBytes),
      \* a failed fetch
      [ZeroFetchResult EXCEPT !.NormalizedURL = URLOf(HostAB, << "/", "z" >>),
                              !.Error = "request failed"] }

TailIdle ==
    /\ site = << >>
    /\ \E st \in SimThresholds :
          opts = [BatchSize |-> 0, Parallel |-> 1, RenderParallel |-> 1,
                  SimThreshold |-> st]
    /\ ctxDone = FALSE
    /\ batchIdx = 0
    /\ results = << >>
    /\ fetchI = 1
    /\ fetchGo = << >>
    /\ eligibleHTML = << >>
    /\ renderI = 1
    /\ renderGo = << >>
    /\ report = NilReport
    /\ runErr = ""

\* Fetch on sites that answer with redirects
MaxHops == 6   \* longest sequence of redirects of a site

RedirectKinds ==
    { [url |-> URLOf(HostAB, << "/" >>), outcome |-> "ok", status |-> 200, ct |-> CtHTML,
       html |-> HtmlBody(2048, {}, 300, 1), body |-> NilBytes,
       renderOK |-> TRUE, rendered |-> FeatA,
       hops |-> [k \in 1..n |-> URLOf(HostAB, << "/" >> \o Dec5(k))]] : n \in 0..MaxHops }

InitRedirect ==
    /\ site \in [1..NumURLs -> RedirectKinds]
    /\ opts = [BatchSize |-> 0, Parallel |-> 1, RenderParallel |-> 1,
               SimThreshold |-> DefaultSimThreshold]
    /\ pc = "fetch"
    /\ ctxDone = FALSE
    /\ batchIdx = 0
    /\ results = << >>
    /\ fetchI = 1
    /\ fetchGo = << >>
    /\ eligibleHTML = << >>
    /\ renderI = 1
    /\ renderGo = << >>
    /\ fetchResults = << >>
    /\ pagesWithFeatures = << >>
    /\ contentClusters = << >>
    /\ assignments = NoAssignments
    /\ report = NilReport
    /\ runErr = ""

\* the next URL is fetched
FetchRedirected ==
    /\ pc = "fetch"
    /\ fetchI <= NumURLs
    /\ \E r \in FetchFollowing(Items[fetchI], site[fetchI], MaxRedirects) :
          results' = Append(results, r)
    /\ fetchI' = fetchI + 1
    /\ UNCHANGED << site, opts, pc, ctxDone, batchIdx, fetchGo, eligibleHTML, renderI,
                    renderGo, fetchResults, pagesWithFeatures, contentClusters,
                    assignments, report, runErr >>

SpecRedirect == InitRedirect /\ [][FetchRedirected]_vars

InitRules ==
    /\ TailIdle
    /\ pc = "E1"
    /\ \E kinds \in [1..NumRulePages -> RuleKinds] :
          fetchResults = [i \in 1..NumRulePages |-> [kinds[i] EXCEPT !.ID = i]]
    /\ pagesWithFeatures = << >>
    /\ contentClusters = << >>
    /\ assignments = NoAssignments

NextRules ==
    \/ RuleE1
    \/ RuleE3
    \/ RuleL1
    \/ RuleW1
    \/ RuleM1
    \/ RuleT1
    \/ RuleR1
    \/ RuleU1

SpecRules == InitRules /\ [][NextRules]_vars

-----------------------------------------------------------------------------
(* BuildRuleAssignments on HTML 200 pages of one origin that differ in     *)
(* their bodies: the inputs of rule T1.                                    *)

NumThinPages == 5   \* fetch results handed to the rules

\* an empty body, 2 KiB with 150 characters of text, 4 KiB with 3000
ThinBodies == { NilBytes, HtmlBody(2048, {}, 150, 3), HtmlBody(4096, {}, 3000, 4) }

\* the page of id i: http://ab/<i as five digits>
ThinPage(i, html) ==
    [RuleKind(URLOf(HostAB, << "/" >> \o Dec5(i)), URLOf(HostAB, << "/" >> \o Dec5(i)),
              200, CtHTML, html) EXCEPT !.ID = i]

InitThin ==
    /\ TailIdle
    /\ pc = "E1"
    /\ \E bodies \in [1..NumThinPages -> ThinBodies] :
          fetchResults = [i \in 1..NumThinPages |-> ThinPage(i, bodies[i])]
    /\ pagesWithFeatures = << >>
    /\ contentClusters = << >>
    /\ assignments = NoAssignments

SpecThin == InitThin /\ [][NextRules]_vars

-----------------------------------------------------------------------------
(* Cluster, the rules and BuildReport on pages drawn from PageKinds: the   *)
(* state of Run after its last batch, ids 1..NumPages.                     *)

NumPages == 4   \* pages handed to Cluster

PageKind(path, status, ct, html, body, features) ==
    [FetchResult |->
        [ZeroFetchResult EXCEPT !.NormalizedURL = URLOf(HostAB, path),
                                !.FinalURL = URLOf(HostAB, path),
                                !.StatusCode = status, !.ContentType = ct,
                                !.ContentCategory = categorizeContent(ct),
                                !.RawHTML = html, !.RawBody = body],
     Features |-> features]

BigHtml == HtmlBody(2048, {}, 300, 1)

\* an image of 1500 bytes and a rendered page whose screenshot has its pHash
SmallImage == [ImageBody EXCEPT !.len = 1500]
FeatLikeImage ==
    [FeatA EXCEPT !.TextSimHash = {2}, !.TextLength = 1200, !.PHash = {3}]

\* an image of 1600 bytes whose pHash differs from SmallImage's in one bit
NearImage == [ImageBody EXCEPT !.len = 1600, !.phash = {3, 4}, !.md5 = {8}]

\* a JSON document with the text of page A
TextBody == [NilBytes EXCEPT !.len = 400, !.thash = {1, 50}, !.tlen = 250, !.md5 = {9}]

PageKinds ==
    { PageKind(<< "/" >>, 200, CtHTML, BigHtml, NilBytes, FeatA),
      PageKind(<< "/", "b" >>, 200, CtHTML, BigHtml, NilBytes, FeatB),
      PageKind(<< "/", "c" >>, 200, CtHTML, BigHtml, NilBytes,
               [FeatA EXCEPT !.TextSimHash = {1, 50, 51}, !.TextLength = 240]),
      PageKind(<< "/", "n" >>, 200, CtHTML, BigHtml, NilBytes, NilFeatures),
      PageKind(<< "/", "h" >>, 200, CtHTML, BigHtml, NilBytes, FeatLikeImage),
      PageKind(<< "/", "i" >>, 200, CtPNG, NilBytes, SmallImage,
               ExtractNonHTMLFeatures(ContentCategoryImage, SmallImage)),
      PageKind(<< "/", "k" >>, 200, CtPNG, NilBytes, NearImage,
               ExtractNonHTMLFeatures(ContentCategoryImage, NearImage)),
      PageKind(<< "/", "j" >>, 200, CtJSON, NilBytes, TextBody,
               ExtractNonHTMLFeatures(ContentCategoryText, TextBody)) }

InitCluster ==
    /\ TailIdle
    /\ pc = "cluster"
    /\ \E kinds \in [1..NumPages -> PageKinds] :
          /\ pagesWithFeatures =
                [i \in 1..NumPages |-> [kinds[i] EXCEPT !.FetchResult.ID = i]]
          /\ fetchResults =
                [i \in 1..NumPages |->
                    [kinds[i].FetchResult EXCEPT !.ID = i, !.RawHTML = NilBytes,
                                                 !.RawBody = NilBytes]]
    /\ contentClusters = << >>
    /\ assignments = NoAssignments

NextCluster ==
    \/ ClusterStep
    \/ NextRules
    \/ Report

SpecCluster == InitCluster /\ [][NextCluster]_vars

-----------------------------------------------------------------------------
(* Cluster, the rules and BuildReport on pages of one bucket: rendered      *)
(* pages that form chains (consecutive pages are duplicates by their       *)
(* screenshots, the ends of a chain are not), a text and a binary document.*)

NumChainPages == 4   \* pages handed to Cluster

\* window.performance.timing of a page: the load events 40, 20 and 30 ms after
\* navigationStart, and the same with responseStart reported as 0
PerfNormal ==
    [NavigationStart |-> 100, ResponseStart |-> 140, DomContentLoadedEventEnd |-> 120,
     LoadEventEnd |-> 130]
PerfNoResponseStart == [PerfNormal EXCEPT !.ResponseStart = 0]

\* the k-th page of the chain: the text of all pages is the same, the paths
\* of two pages are disjoint, the pHashes of pages k and l differ in 3|k - l| bits
ChainFeatures(k, timing) ==
    parsePerfTiming(
        [ZeroFeatures EXCEPT !.TextSimHash = {1}, !.TextLength = 1500,
                             !.DOMNodeCount = 3, !.TextNodeCount = 2,
                             !.TagCount = [t \in {"div"} |-> 2],
                             !.PathCount = [p \in {Dec5(k)} |-> 1],
                             !.ScreenshotW = 800, !.ScreenshotH = 600,
                             !.PHash = 40..(40 + 3 * k)],
        timing)

ChainText == [NilBytes EXCEPT !.len = 2000, !.thash = {1}, !.tlen = 1500, !.md5 = {9}]
ChainPDF  == [NilBytes EXCEPT !.len = 1500, !.md5 = {1, 2}]

ChainKinds ==
    { PageKind(<< "/" >> \o Dec5(k), 200, CtHTML, BigHtml, NilBytes, ChainFeatures(k, PerfNormal)) :
        k \in 0..4 }
    \cup { PageKind(<< "/", "n" >>, 200, CtHTML, BigHtml, NilBytes,
                    ChainFeatures(0, PerfNoResponseStart)),
           \* an error page with the screenshot of page 1 and a longer text
           PageKind(<< "/", "e" >>, 404, CtHTML, BigHtml, NilBytes,
                    [ChainFeatures(1, PerfNormal) EXCEPT !.TextLength = 1600]),
           \* a JSON document with the text of the pages, and a PDF
           PageKind(<< "/", "j" >>, 200, CtJSON, NilBytes, ChainText,
                    ExtractNonHTMLFeatures(ContentCategoryText, ChainText)),
           PageKind(<< "/", "p" >>, 200, CtPDF, NilBytes, ChainPDF,
                    ExtractNonHTMLFeatures(ContentCategoryBinary, ChainPDF)) }

InitChain ==
    /\ TailIdle
    /\ pc = "cluster"
    /\ \E kinds \in [1..NumChainPages -> ChainKinds] :
          /\ pagesWithFeatures =
                [i \in 1..NumChainPages |-> [kinds[i] EXCEPT !.FetchResult.ID = i]]
          /\ fetchResults =
                [i \in 1..NumChainPages |->
                    [kinds[i].FetchResult EXCEPT !.ID = i, !.RawHTML = NilBytes,
                                                 !.RawBody = NilBytes]]
    /\ contentClusters = << >>
    /\ assignments = NoAssignments

SpecChain == InitChain /\ [][NextCluster]_vars

-----------------------------------------------------------------------------
(* Properties *)

ReportRows == 1..Len(report.urls)

\* the rows of the report that carry a cluster id
CarriersOf(cid) == { i \in ReportRows : report.urls[i].ClusterID = cid }

\* the ids of the members of a content cluster
ContentMembers(cid) ==
    { contentClusters[cid].Members[i].FetchResult.ID :
         i \in 1..Len(contentClusters[cid].Members) }

ContentClustersOf(id) == { cid \in DOMAIN contentClusters : id \in ContentMembers(cid) }

\* the rule info of the fetch result with an id
InfoOfID(id) ==
    perURLInfo(fetchResults[CHOOSE i \in 1..Len(fetchResults) : fetchResults[i].ID = id])

RulePcs == {"E1", "E3", "L1", "W1", "M1", "T1", "R1", "U1"}

NextRulePc(p) ==
    CASE p = "E1" -> "E3" [] p = "E3" -> "L1" [] p = "L1" -> "W1" [] p = "W1" -> "M1"
      [] p = "M1" -> "T1" [] p = "T1" -> "R1" [] p = "R1" -> "U1" [] OTHER -> "report"

PriorityOfRule(p) ==
    CASE p = "E1" -> 1 [] p = "E3" -> 3 [] p = "L1" -> 4 [] p = "W1" -> 5
      [] p = "M1" -> 6 [] p = "T1" -> 7 [] p = "R1" -> 8 [] OTHER -> 9

\* C1: every report Run returns has exactly one entry per input URL, the
\* entry ids being exactly 1..N, whatever failed and whenever the context
\* was cancelled.
C1_OneEntryPerInput ==
    pc = "done" =>
        /\ Len(report.urls) = NumURLs
        /\ \A id \in 1..NumURLs :
              Cardinality({ i \in ReportRows : report.urls[i].ID = id }) = 1

\* C2: in the final report every non-empty cluster id is carried by two or
\* more URL reports, and a URL report without a cluster id is canonical.
C2_NoLoneClusterID ==
    pc = "done" =>
        \A i \in ReportRows :
            IF report.urls[i].ClusterID = << >>
            THEN report.urls[i].IsCanonical
            ELSE Cardinality(CarriersOf(report.urls[i].ClusterID)) >= 2

\* C3: in the map BuildRuleAssignments returns every cluster id is carried by
\* two or more page ids.
C3_RuleClusterHasTwo ==
    pc = "report" =>
        \A a \in DOMAIN assignments :
            \E b \in DOMAIN assignments :
                b # a /\ assignments[b].ClusterID = assignments[a].ClusterID

\* C4: every content cluster of report.clusters has two or more member ids,
\* and of the URL reports that carry its id exactly one is canonical, which
\* is a member of the cluster.
C4_ContentClusterShape ==
    pc = "done" =>
        \A c \in report.clusters :
            LET canon == { i \in CarriersOf(c.ClusterID) : report.urls[i].IsCanonical }
            IN  /\ Cardinality(Range(c.MemberIDs)) >= 2
                /\ Cardinality(canon) = 1
                /\ \A i \in canon : report.urls[i].ID \in Range(c.MemberIDs)

\* a report with a content cluster that has a canonical and another member
C4_Witness ==
    /\ pc = "done"
    /\ \E c \in report.clusters :
          /\ \E i \in CarriersOf(c.ClusterID) : report.urls[i].IsCanonical
          /\ \E i \in CarriersOf(c.ClusterID) : ~report.urls[i].IsCanonical

\* C5: a page id is in at most one content cluster and has at most one rule
\* assignment; a member of a content cluster is reported with the id and the
\* canonical flag of that cluster even when a rule assignment exists for it,
\* and the rule assignment is reported only for pages in no content cluster.
C5_ContentBeforeRule ==
    pc = "done" =>
        /\ \A c1, c2 \in DOMAIN contentClusters :
              c1 # c2 => ContentMembers(c1) \cap ContentMembers(c2) = {}
        /\ \A i \in ReportRows :
              LET r == report.urls[i]
              IN  IF ContentClustersOf(r.ID) # {}
                  THEN /\ r.ClusterID \in ContentClustersOf(r.ID)
                       /\ r.IsCanonical =
                             (r.ID = contentClusters[r.ClusterID].Canonical.FetchResult.ID)
                  ELSE IF r.ID \in DOMAIN assignments
                  THEN /\ r.ClusterID = assignments[r.ID].ClusterID
                       /\ r.IsCanonical = assignments[r.ID].IsCanonical
                  ELSE r.ClusterID = << >> /\ r.IsCanonical

\* a report with a page that is in a content cluster and has a rule assignment
C5_Witness ==
    /\ pc = "done"
    /\ \E i \in ReportRows :
          /\ ContentClustersOf(report.urls[i].ID) # {}
          /\ report.urls[i].ID \in DOMAIN assignments

\* one rule applied: the next rule follows, the assignments made stay as they
\* are and the new ones have the priority of the rule
RuleStepKeepsAssignments ==
    /\ (pc \in RulePcs /\ pc' # pc) => pc' = NextRulePc(pc)
    /\ \A id \in DOMAIN assignments :
          id \in DOMAIN assignments' /\ assignments'[id] = assignments[id]
    /\ \A id \in DOMAIN assignments' \ DOMAIN assignments :
          pc \in RulePcs /\ assignments'[id].Priority = PriorityOfRule(pc)

\* C6: the rules are applied in the order E1, E3, L1, W1, M1, T1, R1, U1; an
\* id that has an assignment keeps its cluster id, canonical flag and
\* priority through every later rule, and an id a rule assigns gets the
\* priority of that rule.
C6_FirstWriterWins == [][RuleStepKeepsAssignments]_vars

\* the map returned holds a login page that rule E1 assigned and a page of
\* the same origin and fingerprint that rule L1 assigned after it
C6_Witness ==
    /\ pc = "report"
    /\ \E a, b \in DOMAIN assignments :
          /\ assignments[a].Priority = 1
          /\ assignments[b].Priority = 4
          /\ containsLoginKeywords(InfoOfID(a).FR.RawHTML)
          /\ InfoOfID(a).Origin = InfoOfID(b).Origin
          /\ InfoOfID(a).HtmlFP.Hash = InfoOfID(b).HtmlFP.Hash

\* C7: a page whose fetch failed (error set, status 0, no final URL) is in no
\* content cluster and no rule cluster: its URL report has no cluster id and
\* is canonical.
C7_FailedFetchAlone ==
    pc = "done" =>
        \A i \in ReportRows :
            (/\ report.urls[i].Error # ""
             /\ report.urls[i].StatusCode = 0
             /\ report.urls[i].FinalURL = NoURL)
            => (report.urls[i].ClusterID = << >> /\ report.urls[i].IsCanonical)

\* C8: when BuildRuleAssignments reads the fetch results in Run, the raw HTML
\* of every HTML page is the body that was fetched for it.
C8_RulesReadFetchedBody ==
    pc = "E1" =>
        \A i \in 1..Len(fetchResults) :
            (/\ fetchResults[i].ID \in 1..NumURLs
             /\ fetchResults[i].ContentCategory = ContentCategoryHTML)
            => fetchResults[i].RawHTML = site[fetchResults[i].ID].html

\* C9: two pages of different origin keys never carry the same cluster id of
\* one of the rules E1, E3, L1, W1, M1, T1, U1 (every priority but that of R1).
C9_OriginScopesRules ==
    pc = "report" =>
        \A a, b \in DOMAIN assignments :
            (/\ assignments[a].ClusterID = assignments[b].ClusterID
             /\ assignments[a].Priority # 8)
            => InfoOfID(a).Origin = InfoOfID(b).Origin

\* C10: two pages of different content categories never get the same bucket
\* key and are never members of the same content cluster.
C10_CategoriesNeverMeet ==
    pc # "cluster" =>
        /\ \A p, q \in Range(pagesWithFeatures) :
              (/\ p.Features # NilFeatures
               /\ q.Features # NilFeatures
               /\ p.FetchResult.ContentCategory # q.FetchResult.ContentCategory)
              => generateBucketKey(p) # generateBucketKey(q)
        /\ \A cid \in DOMAIN contentClusters :
              \A i, j \in 1..Len(contentClusters[cid].Members) :
                  contentClusters[cid].Members[i].FetchResult.ContentCategory
                     = contentClusters[cid].Members[j].FetchResult.ContentCategory

\* what a report says about membership, without the labels of the content
\* clusters: per row the id, the canonical flag, the ids that share its
\* cluster and, for a rule cluster, the cluster id
Membership(rep) ==
    LET contentIDs == { c.ClusterID : c \in rep.clusters }
    IN  [i \in 1..Len(rep.urls) |->
            [ID |-> rep.urls[i].ID,
             IsCanonical |-> rep.urls[i].IsCanonical,
             Mates |-> IF rep.urls[i].ClusterID = << >> THEN {}
                       ELSE { rep.urls[j].ID : j \in { k \in 1..Len(rep.urls) :
                                  rep.urls[k].ClusterID = rep.urls[i].ClusterID } },
             RuleCluster |-> IF rep.urls[i].ClusterID \in contentIDs THEN << >>
                             ELSE rep.urls[i].ClusterID]]

\* the content clusters of a report as canonical URL and member-id set
ContentPartition(rep) ==
    { [CanonicalURL |-> c.CanonicalURL, MemberIDs |-> Range(c.MemberIDs)] : c \in rep.clusters }

\* the timing triplets (ttfb, domContentLoaded, loadEvent) a page is varied to
TimingTriplets == { << 0, 0, 0 >>, << 30, 10, 5 >> }

WithTimings(pages, tv) ==
    [i \in 1..Len(pages) |->
        IF pages[i].Features = NilFeatures THEN pages[i]
        ELSE [pages[i] EXCEPT !.Features.TTFB = tv[i][1],
                              !.Features.DOMContentLoaded = tv[i][2],
                              !.Features.LoadEvent = tv[i][3]]]

\* the report of the same fetch results with other timings and another
\* SimThreshold
ReportOfVariant(tv, st) ==
    LET pages2 == WithTimings(pagesWithFeatures, tv)
        groups2 == ClusterGroups(pages2)
    IN  BuildReport(fetchResults, pages2, Cluster(pages2, SeqOfSet(groups2)),
                    BuildRuleAssignments(fetchResults), [opts EXCEPT !.SimThreshold = st])

\* C11: the report of a run and the report of the same pages with any other
\* timing triplets and any other SimThreshold have the same content
\* partition, the same canonicals and the same rule assignments.
C11_MembershipIgnoresTimingAndThreshold ==
    pc = "done" =>
        \A tv \in [1..Len(pagesWithFeatures) -> TimingTriplets], st \in SimThresholds :
            LET variant == ReportOfVariant(tv, st)
            IN  /\ Membership(variant) = Membership(report)
                /\ ContentPartition(variant) = ContentPartition(report)

\* a report with a content cluster whose members differ in their timings, a
\* rule cluster, and a SimThreshold that is not the default
C11_Witness ==
    /\ pc = "done"
    /\ opts.SimThreshold # DefaultSimThreshold
    /\ DOMAIN assignments # {}
    /\ \E cid \in DOMAIN contentClusters :
          \E i, j \in 1..Len(contentClusters[cid].Members) :
              contentClusters[cid].Members[i].Features.TTFB
                 # contentClusters[cid].Members[j].Features.TTFB

\* a slice in another order
Permuted(pages, perm) == [i \in 1..Len(pages) |-> pages[perm[i]]]

\* cluster groups without labels: the canonical id and the member-id set
PartitionOfGroups(groups) ==
    { [Canonical |-> g.Canonical.FetchResult.ID,
       MemberIDs |-> { g.Members[i].FetchResult.ID : i \in 1..Len(g.Members) }] :
      g \in groups }

\* C12: Cluster on any permutation of the pages gives the partition it gave
\* on the pages (whatever the order its maps were iterated in): the same
\* member-id sets with the same canonical per set.
C12_ClusterIgnoresInputOrder ==
    pc = "E1" =>
        \A perm \in Orders(1..Len(pagesWithFeatures)) :
            PartitionOfGroups(ClusterGroups(Permuted(pagesWithFeatures, perm)))
               = PartitionOfGroups({ contentClusters[cid] : cid \in DOMAIN contentClusters })

\* Cluster has built a cluster in which two members tie on status and text
\* length (the id decides the canonical), the canonical not being the first
\* of them in the input
C12_Witness ==
    /\ pc = "E1"
    /\ \E cid \in DOMAIN contentClusters :
          \E i, j \in 1..Len(contentClusters[cid].Members) :
              LET a == contentClusters[cid].Members[i]
                  b == contentClusters[cid].Members[j]
              IN  /\ a.FetchResult.ID # b.FetchResult.ID
                  /\ a.FetchResult.StatusCode = b.FetchResult.StatusCode
                  /\ a.Features.TextLength = b.Features.TextLength
    /\ Cardinality(DOMAIN contentClusters) >= 2

\* C13: the map BuildRuleAssignments has built, the origin map and the
\* final-URL map iterated in any order by every rule, is the map it returns
\* for every permutation of its input slice.
C13_RulesIgnoreOrder ==
    pc = "report" =>
        \A perm \in Orders(1..Len(fetchResults)) :
            BuildRuleAssignments(Permuted(fetchResults, perm)) = assignments

\* the rules have run on two origins and have assigned a group of two pages
\* whose paths are of equal length, the canonical being the smaller id
C13_Witness ==
    /\ pc = "report"
    /\ Cardinality(DOMAIN OriginMap(fetchResults)) >= 2
    /\ Cardinality(DOMAIN FinalURLMap(fetchResults)) >= 2
    /\ \E a, b \in DOMAIN assignments :
          /\ a < b
          /\ assignments[a].ClusterID = assignments[b].ClusterID
          /\ assignments[a].IsCanonical
          /\ Len(getPath(InfoOfID(a).FR.FinalURL)) = Len(getPath(InfoOfID(b).FR.FinalURL))

\* a batch is about to start and the token is cancelled
CancelledAtBatchStart == ctxDone /\ pc = "batch" /\ batchIdx < TotalBatches

\* a step of Run from a batch start with a cancelled token, or after Run has
\* returned the error
CancelledBatchStep ==
    /\ CancelledAtBatchStart =>
          /\ pc' \in {"batch", "failed"}
          /\ pc' = "failed" => runErr' = "context canceled"
    /\ pc = "failed" => pc' = "failed" /\ runErr' = runErr
    /\ (CancelledAtBatchStart \/ pc = "failed") =>
          /\ report' = NilReport
          /\ batchIdx' = batchIdx
          /\ fetchResults' = fetchResults
          /\ DOMAIN fetchGo' = DOMAIN fetchGo
          /\ \A i \in DOMAIN fetchGo : fetchGo'[i].st = "running" => fetchGo[i].st = "running"
          /\ DOMAIN renderGo' = DOMAIN renderGo
          /\ \A i \in DOMAIN renderGo :
                renderGo'[i] \in {"waiting", "rendering"} => renderGo[i] = renderGo'[i]

\* C14: when a batch is about to start and the token is cancelled, the only
\* step Run takes is the return of the token's error without a report; no
\* fetch and no render is started for that batch or any later one.
C14_CancelledBeforeBatch == [][CancelledBatchStep]_vars

\* Run has returned the token's error at the start of its second batch
C14_Witness ==
    /\ pc = "failed"
    /\ runErr = "context canceled"
    /\ report = NilReport
    /\ batchIdx = 1
    /\ Len(fetchResults) > 0

\* C15: outside FetchBatch no fetch goroutine of the batch is running, and
\* outside the render loop and its wg.Wait no render goroutine is live.
C15_WorkersJoinedAtBoundary ==
    /\ pc # "fetchLoop" => FetchRunning = {}
    /\ pc \notin {"renderLoop", "renderWait"} => RenderLive = {}

\* C16: the rows of the returned report are in increasing order of id.
C16_RowsInIdOrder ==
    pc = "done" =>
        \A i, j \in 1..Len(report.urls) :
            i < j => report.urls[i].ID < report.urls[j].ID

\* C17: at most Parallel fetch goroutines of a FetchBatch hold a slot of its
\* semaphore and execute Fetch, and at most RenderParallel callers are inside
\* Renderer.ExtractFeatures; a goroutine that has ended holds no slot.
C17_SemaphoresBound ==
    /\ Cardinality(FetchRunning) <= opts.Parallel
    /\ Cardinality(Rendering) <= opts.RenderParallel

\* FetchBatch has items left and waits for a slot: Parallel goroutines run
C17_Witness ==
    /\ pc = "fetchLoop"
    /\ ~ctxDone
    /\ fetchI <= BatchLen
    /\ Cardinality(FetchRunning) = opts.Parallel
    /\ opts.Parallel < opts.RenderParallel

\* the value 1.0 of a score kept as a fraction, a cosine, a Jaccard ratio
FracIsOne(f) == f.num = f.den
CosIsOne(c) == c.dot > 0 /\ c.dot * c.dot = c.normA * c.normB
StructIsOne(st) == CosIsOne(st.dom) /\ st.path.inter = st.path.uni

\* 0.4c + 0.25s + 0.25v + 0.10b = 1.0: every term at its maximum
TotalIsOne(t) ==
    /\ FracIsOne(t.content)
    /\ StructIsOne(t.structure)
    /\ FracIsOne(t.visual)
    /\ CosIsOne(t.behavior)

\* the rows of the canonicals of the content clusters
CanonicalRows ==
    { i \in ReportRows :
        /\ report.urls[i].ClusterID \in { c.ClusterID : c \in report.clusters }
        /\ report.urls[i].IsCanonical }

\* C18: the row of the canonical of every content cluster has content_sim,
\* structure_sim, visual_sim, behavior_sim and similarity_to_canonical 1.0.
C18_CanonicalScoresAreOne ==
    pc = "done" =>
        \A i \in CanonicalRows :
            /\ FracIsOne(report.urls[i].ContentSim)
            /\ StructIsOne(report.urls[i].StructureSim)
            /\ FracIsOne(report.urls[i].VisualSim)
            /\ CosIsOne(report.urls[i].BehaviorSim)
            /\ TotalIsOne(report.urls[i].SimilarityToCanonical)

\* the report row of an id
RowOfID(id) == CHOOSE i \in ReportRows : report.urls[i].ID = id

\* two image pages with features on one host whose non-zero pHashes differ in
\* at most one bit
NearImages(p, q) ==
    /\ p.FetchResult.ID # q.FetchResult.ID
    /\ p.FetchResult.ContentCategory = ContentCategoryImage
    /\ q.FetchResult.ContentCategory = ContentCategoryImage
    /\ p.Features # NilFeatures /\ q.Features # NilFeatures
    /\ p.Features.PHash # {} /\ q.Features.PHash # {}
    /\ HostPort(p.FetchResult.FinalURL) = HostPort(q.FetchResult.FinalURL)
    /\ HammingDistance64(p.Features.PHash, q.Features.PHash) <= 1

\* C19: two eligible image pages of one host whose non-zero pHashes are at
\* Hamming distance 0 or 1 are in one content cluster, and the report gives
\* both a visual_sim of 0.99 or more.
C19_NearImagesCluster ==
    pc = "done" =>
        \A p, q \in Range(pagesWithFeatures) :
            NearImages(p, q) =>
                /\ ContentClustersOf(p.FetchResult.ID) \cap ContentClustersOf(q.FetchResult.ID) # {}
                /\ 100 * report.urls[RowOfID(p.FetchResult.ID)].VisualSim.num
                      >= 99 * report.urls[RowOfID(p.FetchResult.ID)].VisualSim.den
                /\ 100 * report.urls[RowOfID(q.FetchResult.ID)].VisualSim.num
                      >= 99 * report.urls[RowOfID(q.FetchResult.ID)].VisualSim.den

\* the ids of the fetch results with a body
IDsWithBody(html) ==
    { fetchResults[i].ID : i \in { j \in 1..Len(fetchResults) : fetchResults[j].RawHTML = html } }

\* the ids rule T1 has assigned
ThinAssigned == { id \in DOMAIN assignments : assignments[id].Priority = 7 }

\* C20: of five HTML 200 pages of one origin, three with an empty body, one
\* with 2 KiB and 150 characters of text, one with 4 KiB and 3000 characters,
\* rule T1 puts the first four into one cluster and leaves the fifth out.
C20_ThinCluster ==
    LET empty == IDsWithBody(NilBytes)
        short == IDsWithBody(HtmlBody(2048, {}, 150, 3))
        long  == IDsWithBody(HtmlBody(4096, {}, 3000, 4))
    IN  (/\ pc = "report"
         /\ Cardinality(empty) = 3 /\ Cardinality(short) = 1 /\ Cardinality(long) = 1)
        => /\ empty \cup short \subseteq ThinAssigned
           /\ \A a, b \in empty \cup short :
                 assignments[a].ClusterID = assignments[b].ClusterID
           /\ long \cap ThinAssigned = {}

\* a score in [0, 1]: a fraction, a cosine dot / sqrt(normA * normB), a
\* Jaccard ratio
FracInUnit(f) == 0 <= f.num /\ f.num <= f.den
CosInUnit(c) == 0 <= c.dot /\ c.dot * c.dot <= c.normA * c.normB
RatioInUnit(r) == 0 <= r.inter /\ r.inter <= r.uni

\* C21: for every two pages with features, simContent, simDOMStats, simPath,
\* simStructure, simVisual and simBehavior are in [0, 1] (and with them
\* totalSim, a convex combination of four of them).
C21_ScoresInUnitInterval ==
    \A p, q \in Range(pagesWithFeatures) :
        (p.Features # NilFeatures /\ q.Features # NilFeatures) =>
            LET sims == CalculateSimilarities(p.Features, q.Features)
            IN  /\ FracInUnit(sims.ContentSim)
                /\ CosInUnit(sims.StructureSim.dom)
                /\ RatioInUnit(sims.StructureSim.path)
                /\ FracInUnit(sims.VisualSim)
                /\ CosInUnit(sims.BehaviorSim)
                /\ CosInUnit(sims.SimilarityToCanonical.behavior)

\* the results of the current batch that are written, and those of the
\* batches before
FetchedResults ==
    { r \in Range(results) \cup Range(fetchResults) : r # ZeroFetchResult }

\* C22: every result of Fetch or FetchBatch with a non-empty Error has
\* StatusCode 0 and ContentCategory "empty".
C22_FailedFetchIsBlank ==
    \A r \in FetchedResults :
        r.Error # "" => r.StatusCode = 0 /\ r.ContentCategory = ContentCategoryEmpty

\* the bucket of the input that holds page p
BucketOf(p) ==
    CHOOSE b \in Buckets(pagesWithFeatures) :
        \E i \in 1..Len(b) : b[i].FetchResult.ID = p.FetchResult.ID

\* a precedes b under (status 200 first, larger text length, smaller id)
PrecedesByKey(a, b) ==
    \/ a.FetchResult.StatusCode = 200 /\ b.FetchResult.StatusCode # 200
    \/ /\ (a.FetchResult.StatusCode = 200) = (b.FetchResult.StatusCode = 200)
       /\ \/ a.Features.TextLength > b.Features.TextLength
          \/ /\ a.Features.TextLength = b.Features.TextLength
             /\ a.FetchResult.ID < b.FetchResult.ID

\* C23: the canonical of a content cluster is a member that precedes every
\* other member under (status 200 first, larger text length, smaller id);
\* selectCanonical returns it for every order of the members; and the
\* cluster that holds the canonical of its bucket has that page as canonical.
C23_CanonicalIsLeastMember ==
    \A cid \in DOMAIN contentClusters :
        LET c == contentClusters[cid]
            members == Range(c.Members)
        IN  /\ c.Canonical \in members
            /\ \A m \in members \ {c.Canonical} :
                  PrecedesByKey(c.Canonical, m) /\ ~PrecedesByKey(m, c.Canonical)
            /\ \A perm \in Orders(members) : selectCanonical(perm) = c.Canonical
            /\ selectCanonical(BucketOf(c.Canonical)) \in members
                  => c.Canonical = selectCanonical(BucketOf(c.Canonical))

\* a cluster whose canonical answers 200 and comes after an error page with a
\* longer text, and a cluster whose canonical is not the canonical of the bucket
C23_Witness ==
    /\ \E cid \in DOMAIN contentClusters :
          \E m \in Range(contentClusters[cid].Members) :
              /\ m.FetchResult.StatusCode # 200
              /\ m.Features.TextLength > contentClusters[cid].Canonical.Features.TextLength
              /\ m.FetchResult.ID < contentClusters[cid].Canonical.FetchResult.ID
    /\ \E cid \in DOMAIN contentClusters :
          contentClusters[cid].Canonical # selectCanonical(BucketOf(contentClusters[cid].Canonical))

\* C24: in every content cluster every member other than the canonical
\* passes quickSimHashCheck and IsDuplicate against the canonical of the
\* cluster.
C24_MembersDuplicateCanonical ==
    \A cid \in DOMAIN contentClusters :
        LET c == contentClusters[cid]
        IN  \A m \in Range(c.Members) \ {c.Canonical} :
                /\ quickSimHashCheck(c.Canonical.Features, m.Features)
                /\ IsDuplicate(c.Canonical.Features, m.Features)

\* the pages of a bucket that the first pass merges with the canonical of
\* the bucket (the canonical included)
MergedInFirstPass(bucket) ==
    LET bucketPages == SortPages(bucket)
        canonicalIdx == CHOOSE i \in 1..Len(bucketPages) :
                            bucketPages[i] = selectCanonical(bucketPages)
        uf == FirstPass(bucketPages, canonicalIdx)
    IN  { bucketPages[i] : i \in { k \in 1..Len(bucketPages) :
              FindRoot(uf.parent, k) = FindRoot(uf.parent, canonicalIdx) } }

InSameCluster(p, q) ==
    \E cid \in DOMAIN contentClusters :
        {p.FetchResult.ID, q.FetchResult.ID} \subseteq ContentMembers(cid)

PassBoth(p, q) ==
    quickSimHashCheck(p.Features, q.Features) /\ IsDuplicate(p.Features, q.Features)

\* C25: after Cluster, two pages of a bucket that the first pass left
\* unmerged and that pass quickSimHashCheck and IsDuplicate against each
\* other are in one cluster, and no page merged with the bucket canonical in
\* the first pass shares a cluster with a page that was not.
C25_SecondPassOnUnmergedOnly ==
    pc # "cluster" =>
        \A b \in Buckets(pagesWithFeatures) :
            LET merged == MergedInFirstPass(b)
                unmerged == Range(b) \ merged
            IN  /\ \A p, q \in unmerged : (p # q /\ PassBoth(p, q)) => InSameCluster(p, q)
                /\ \A p \in merged : \A q \in unmerged : ~InSameCluster(p, q)

\* a bucket with two unmerged pages that are duplicates of each other, and
\* with a merged page that is a duplicate of an unmerged one
C25_Witness ==
    /\ pc # "cluster"
    /\ \E b \in Buckets(pagesWithFeatures) :
          LET merged == MergedInFirstPass(b)
              unmerged == Range(b) \ merged
          IN  /\ \E p, q \in unmerged : p # q /\ PassBoth(p, q)
              /\ \E p \in merged : \E q \in unmerged :
                    p # selectCanonical(b) /\ PassBoth(p, q)

\* the pre-filter decided by category: never across categories; images by
\* two non-zero pHashes at most 15 bits apart; binaries by equal length; HTML
\* and text by SimHashes at most 8 bits apart and a length ratio of 0.5 or more
PreFilterByCategory(p, q) ==
    LET category == p.FetchResult.ContentCategory
        a == p.Features
        b == q.Features
    IN  IF category # q.FetchResult.ContentCategory THEN FALSE
        ELSE IF category = ContentCategoryImage
             THEN a.PHash # {} /\ b.PHash # {} /\ hammingDistance64(a.PHash, b.PHash) <= 15
        ELSE IF category = ContentCategoryBinary THEN a.TextLength = b.TextLength
        ELSE /\ hammingDistance64(a.TextSimHash, b.TextSimHash) <= 8
             /\ Max2(a.TextLength, b.TextLength) > 0
             /\ 2 * Min2(a.TextLength, b.TextLength) >= Max2(a.TextLength, b.TextLength)

\* C26: for every two pages with features, quickSimHashCheck returns what
\* the pre-filter by category returns.
C26_PreFilterByCategory ==
    \A p, q \in Range(pagesWithFeatures) :
        (p.Features # NilFeatures /\ q.Features # NilFeatures /\ p # q) =>
            quickSimHashCheck(p.Features, q.Features) = PreFilterByCategory(p, q)

\* C27: a fetch whose response comes after at most 5 redirects succeeds and
\* its redirect chain is the start followed by every hop, and a fetch ends
\* with the redirect-cap error only when the redirects are more than 5.
C27_RedirectCap ==
    pc = "fetch" =>
        \A i \in 1..Len(results) :
            LET r == results[i]
                hops == site[i].hops
            IN  /\ Len(hops) <= 5 =>
                      /\ r.Error = ""
                      /\ r.RedirectChain = << r.NormalizedURL >> \o hops
                /\ r.Error = ErrRedirectCap => Len(hops) > 5

\* features without a screenshot hash, without DOM paths and with a zero
\* DOM vector
NoVisualNoStructure(f) ==
    /\ f.PHash = {}
    /\ DOMAIN f.PathCount = {}
    /\ \A i \in 1..Len(DOMVector(f)) : DOMVector(f)[i] = 0

IsTextOrBinary(p) ==
    /\ p.Features # NilFeatures
    /\ p.FetchResult.ContentCategory \in {ContentCategoryText, ContentCategoryBinary}

SameTextHash(a, b) ==
    /\ a.TextSimHash = b.TextSimHash
    /\ a.TextLength # 0 /\ b.TextLength # 0
    /\ 10 * Min2(a.TextLength, b.TextLength) >= 3 * Max2(a.TextLength, b.TextLength)

\* the pHashes are identical and non-zero
SamePHash(a, b) == a.PHash = b.PHash /\ a.PHash # {}

\* C29: two pages are duplicates only with identical text SimHashes (both
\* lengths non-zero, ratio 0.3 or more) or with identical non-zero pHashes;
\* a Hamming distance of 1 or more on both hashes makes IsDuplicate false.
C29_DuplicateNeedsEqualHash ==
    \A p, q \in Range(pagesWithFeatures) :
        (p.Features # NilFeatures /\ q.Features # NilFeatures) =>
            LET a == p.Features
                b == q.Features
            IN  /\ IsDuplicate(a, b) => SameTextHash(a, b) \/ SamePHash(a, b)
                /\ ( /\ hammingDistance64(a.TextSimHash, b.TextSimHash) >= 1
                      /\ hammingDistance64(a.PHash, b.PHash) >= 1 ) => ~IsDuplicate(a, b)

\* two pages with equal structure whose text SimHashes are one bit apart and
\* whose non-zero pHashes are one bit apart, a pair of duplicates by the
\* text and a pair of duplicates by the pHash alone, after Cluster
C29_Witness ==
    /\ pc # "cluster"
    /\ \E p, q \in Range(pagesWithFeatures) :
          /\ p.Features # NilFeatures /\ q.Features # NilFeatures
          /\ hammingDistance64(p.Features.TextSimHash, q.Features.TextSimHash) = 1
          /\ hammingDistance64(p.Features.PHash, q.Features.PHash) = 1
          /\ p.Features.PHash # {} /\ q.Features.PHash # {}
          /\ StructureAtLeast085(p.Features, q.Features)
          /\ ~IsDuplicate(p.Features, q.Features)
    /\ \E p, q \in Range(pagesWithFeatures) :
          /\ p.Features # NilFeatures /\ q.Features # NilFeatures
          /\ IsDuplicate(p.Features, q.Features)
          /\ SameTextHash(p.Features, q.Features) /\ ~SamePHash(p.Features, q.Features)
    /\ \E p, q \in Range(pagesWithFeatures) :
          /\ p.Features # NilFeatures /\ q.Features # NilFeatures
          /\ IsDuplicate(p.Features, q.Features)
          /\ ~SameTextHash(p.Features, q.Features) /\ SamePHash(p.Features, q.Features)

\* the page ids whose rule assignment carries the cluster id of page a
RuleCarriers(a) ==
    { b \in DOMAIN assignments : assignments[b].ClusterID = assignments[a].ClusterID }

\* C30: in the map BuildRuleAssignments returns, exactly one of the page ids
\* that carry a rule cluster id has IsCanonical = TRUE.
C30_OneCanonicalPerRuleCluster ==
    pc = "report" =>
        \A a \in DOMAIN assignments :
            Cardinality({ b \in RuleCarriers(a) : assignments[b].IsCanonical }) = 1

=============================================================================
